---- MODULE Spec2Model ----
(***************************************************************************)
(* Multi-camera recorder: CameraManager (device handles, capture workers,  *)
(* latest-frame map), VideoRecorder (recording session, writers) and the   *)
(* control loop of MultiCameraRecorder.run, as one state machine.          *)
(*                                                                         *)
(* Threads: one control thread (position pc) and the capture workers: the  *)
(* ones capture_threads lists, by device, and the strays, workers still    *)
(* alive that a timed-out join left behind.  The handle of device d that   *)
(* the camera map holds is <<d, "cur">>; cleanup() turns every handle      *)
(* handed out before it into <<d, "old">>, which is what a stray holds.    *)
(***************************************************************************)
EXTENDS Integers, Sequences, FiniteSets, TLC

(* ------------------------------ bounds -------------------------------- *)
\* characters in a product name, at most
MaxNameLen == 7
\* CameraDetector.max_cameras: ids 0..max_cameras-1 are probed in sequence
max_cameras == 2
\* frames in a clip, at most
MaxFrames == 3
\* the largest max_frames argument
MaxCap == 2
\* workers alive at one time that capture_threads no longer lists
MaxStrays == 1
\* calls of write_frames during one recording session
MaxTicks == 2

(* ------------------------------ domains ------------------------------- *)
Devices == {0, 2}
Products == {"cola_v1"}
Stamps == {"t1"}
NoProduct == "None"
NoTime == "None"
NoLog == [cams |-> {}, opened |-> {}]
NoRead == <<>>

VARIABLES
    pc,                 \* control thread position
    after,              \* what the control thread does after stop_recording / cleanup
    savedCams,          \* restart_cameras: current_cameras
    todo,               \* stop_recording: writers the release loop has not visited yet
    ret,                \* what start_recording returned, when it was the latest
                        \* recorder call of the control thread ("none" otherwise)
    cameras,            \* CameraManager.cameras: its keys (key d holds handle <<d, "cur">>)
    frames,             \* CameraManager.frames: device id -> the handle generation
                        \* ("cur"/"old") the latest frame was read from
    running,            \* CameraManager.running
    capture_threads,    \* CameraManager.capture_threads: device id -> its thread
    strays,             \* bag of the unlisted workers still alive
    openCaps,           \* handles opened by the manager and not released
    leaked,             \* devices with an open handle no variable refers to any more
    recording,          \* VideoRecorder.recording
    writers,            \* VideoRecorder.writers: device id -> its VideoWriter
    current_product,    \* VideoRecorder.current_product
    record_start_time,  \* VideoRecorder.record_start_time
    ticks,              \* write_frames calls since the session started
    log,                \* what the latest start_recording logged after the label
                        \* request: the camera keys it used, the devices whose
                        \* writer opened
    readLog,            \* what the latest cap.read() of a capture worker came to,
                        \* <<device, outcome>>, where the workers' log is followed
    camera_infos,       \* initialize_cameras called on its own: the candidates,
    devEnv,             \* what each device does when it is opened and read,
    initRet,            \* and what the call returned ("none" before it returns)
    xpc,                \* FrameExtractor.extract_all_clips: its position
    clipFiles,          \* the clip files under clips_dir
    markers,            \* the product directories that hold a .processed file
    force_reprocess,    \* extract_all_clips: the argument
    clip_groups,        \* extract_all_clips: what find_clip_groups returned
    products_to_process,\* extract_all_clips: products still to go through
    product,            \* extract_all_clips: the product of the outer loop
    groups,             \* extract_all_clips: groups of the product still to extract
    product_successful, \* extract_all_clips: groups of the product that returned True
    opened,             \* the clip files a cv2.VideoCapture was made for
    extracted,          \* the groups frame images were written for
    succeeded,          \* the groups extract_frames_from_group returned True for
    processed_products, \* extract_all_clips: processed_products, marked in this run
    gpc,                \* FrameExtractor.extract_frames_from_group: its position
    fps_extract,        \* extract_frames_from_group: the argument
    max_frames,         \* extract_frames_from_group: the argument (0: None or 0, no cap)
    caps,               \* extract_frames_from_group: camera ids of the dict caps
    openClips,          \* camera ids whose clip handle is open
    frame_counts,       \* extract_frames_from_group: frame_counts
    original_fps,       \* extract_frames_from_group: original_fps
    min_frames,         \* extract_frames_from_group: min_frames
    frame_interval,     \* extract_frames_from_group: frame_interval
    extracted_count,    \* extract_frames_from_group: extracted_count
    frame_index,        \* extract_frames_from_group: frame_index
    all_success,        \* extract_frames_from_group: all_success of the latest pass
    xframes,            \* extract_frames_from_group: keys of frames of the latest pass
    images,             \* the image files written: camera, running index, source frame
    xret,               \* what extract_frames_from_group returned ("none" before)
    dpc,                \* CameraDetector.detect_available_cameras: its position
    v4l2_cameras,       \* detect_available_cameras: v4l2_cameras
    available_cameras,  \* detect_available_cameras: keys of available_cameras
    device_id,          \* detect_available_cameras: device_id of the sequential loop
    paths,              \* detect_available_cameras: /dev/video* ids still to probe
    probeLog,           \* the probes made so far: method, device, outcome
    probeOpen,          \* devices on which a probe left its handle open
    infoRet,            \* what get_camera_info returned ("none" before it returns)
    infoOpen,           \* devices on which get_camera_info left its handle open
    gridpc,             \* DisplayManager.create_display_grid: its position
    dcameras,           \* create_display_grid: keys of camera_manager.cameras
    dframes,            \* create_display_grid: keys of camera_manager.frames
    num_cameras,        \* create_display_grid: num_cameras
    display_frames,     \* create_display_grid: display_frames, by device
    grid,               \* what create_display_grid returned
    bpc,                \* how often _extract_base_product_name has been applied
    versioned_name,     \* _extract_base_product_name: the name given first
    base_product,       \* _extract_base_product_name: what the latest call returned
    vpc,                \* get_next_version: "idle", "call" or "ret"
    base_product_name,  \* get_next_version: its argument
    clips_exists,       \* whether clips_base_dir exists
    clip_dirs,          \* the names of the directories in clips_base_dir
    next_name,          \* what get_next_version returned
    lpc,                \* legacy recorder: the control thread ("idle", "loop", "release")
    lrecording,         \* legacy recorder: self.recording
    lwriters,           \* legacy recorder: self.writers, each writer "open" or "released"
    ltodo,              \* legacy stop_recording: writers its loop has still to release
    lthreads,           \* legacy capture_thread per device: "loop", "write" or "dead"
    lfaults             \* what a capture thread did to a writer that was not open

vars == <<pc, after, savedCams, todo, ret, cameras, frames, running,
          capture_threads, strays, openCaps, leaked, recording, writers,
          current_product, record_start_time, ticks, log, readLog,
          camera_infos, devEnv, initRet,
          xpc, clipFiles, markers, force_reprocess, clip_groups, products_to_process,
          product, groups, product_successful, opened, extracted, succeeded,
          processed_products,
          gpc, fps_extract, max_frames, caps, openClips, frame_counts, original_fps,
          min_frames, frame_interval, extracted_count, frame_index, all_success, xframes, images, xret,
          dpc, v4l2_cameras, available_cameras, device_id, paths, probeLog, probeOpen,
          infoRet, infoOpen,
          gridpc, dcameras, dframes, num_cameras, display_frames, grid,
          bpc, versioned_name, base_product,
          vpc, base_product_name, clips_exists, clip_dirs, next_name,
          lpc, lrecording, lwriters, ltodo, lthreads, lfaults>>

ctlVars == <<pc, after, savedCams, todo, ret>>
camVars == <<cameras, frames, running, capture_threads, strays, openCaps, leaked>>
recVars == <<recording, writers, current_product, record_start_time, ticks, log>>

\* what the recorder application itself never changes
initVars == <<camera_infos, devEnv, initRet>>
xallVars == <<xpc, clipFiles, markers, force_reprocess, clip_groups, products_to_process,
              product, groups, product_successful, opened, extracted, succeeded,
              processed_products>>
xgrpVars == <<gpc, fps_extract, max_frames, caps, openClips, frame_counts, original_fps,
              min_frames,
              frame_interval, extracted_count, frame_index, all_success, xframes, images, xret>>
detVars == <<dpc, v4l2_cameras, available_cameras, device_id, paths, probeLog, probeOpen,
             infoRet, infoOpen>>
gridVars == <<gridpc, dcameras, dframes, num_cameras, display_frames, grid>>
baseVars == <<bpc, versioned_name, base_product>>
verVars == <<vpc, base_product_name, clips_exists, clip_dirs, next_name>>
legVars == <<lpc, lrecording, lwriters, ltodo, lthreads, lfaults>>
auxVars == <<readLog, initVars, xallVars, xgrpVars, detVars, gridVars, baseVars, verVars, legVars>>

(* ------------------------------ helpers ------------------------------- *)
EmptyMap == [x \in {} |-> 0]

\* dict assignment m[k] = v for every k in ks
Assign(m, ks, v) == [k \in (DOMAIN m) \cup ks |-> IF k \in ks THEN v ELSE m[k]]

\* open handles on device d: the manager's plus ownerless ones
OpenHandles(d) == Cardinality({h \in openCaps : h[1] = d}) + (IF d \in leaked THEN 1 ELSE 0)

\* a worker: the handle generation it holds and its position in
\* _capture_thread ("check": loop head or sleep, "read": inside a cap.read()
\* entered on an open handle, "done": left the loop, "crashed": left through
\* the except branch)
NewThread == [cap |-> "cur", pc |-> "check"]
Ended == {"done", "crashed"}
Alive(w) == w.pc \notin Ended

StrayKinds == [dev : Devices, cap : {"cur", "old"}, pc : {"check", "read"}]
NoStrays == [k \in StrayKinds |-> 0]
AsStray(d, w) == [dev |-> d, cap |-> w.cap, pc |-> w.pc]

RECURSIVE Sum(_, _)
Sum(f, S) == IF S = {} THEN 0 ELSE LET x == CHOOSE y \in S : TRUE IN f[x] + Sum(f, S \ {x})

StrayCount == Sum(strays, StrayKinds)

\* workers of device d still executing _capture_thread
LiveWorkers(d) ==
    (IF d \in DOMAIN capture_threads /\ Alive(capture_threads[d]) THEN 1 ELSE 0)
    + Sum(strays, {k \in StrayKinds : k.dev = d})

(* --------------------------- CameraDetector --------------------------- *)
\* outcome of one probe of a device (_test_camera_quick / get_camera_info):
\*   "ok"     opened, read, released, reported usable
\*   "closed" did not open (or read nothing): released, reported unusable
\*   "error"  opened, then a timeout or exception: reported unusable, no release
ProbeOutcomes == {"ok", "closed", "error"}

ProbeOk(p, S) == {d \in S : p[d] = "ok"}
ProbeErr(p, S) == {d \in S : p[d] = "error"}

\* detect_available_cameras: v4l2 listing v, else sequential probes p2 of every
\* id, else probes p3 of the globbed /dev/video* ids g
DetectAvailable(v, p2, g, p3) ==
    IF v # {} THEN v
    ELSE IF ProbeOk(p2, Devices) # {} THEN ProbeOk(p2, Devices)
    ELSE ProbeOk(p3, g)

\* the devices on which the probes of one detection leave a handle open
DetectLeaks(v, p2, g, p3) ==
    IF v # {} THEN {}
    ELSE ProbeErr(p2, Devices) \cup (IF ProbeOk(p2, Devices) = {} THEN ProbeErr(p3, g) ELSE {})

(* ---------------------------- CameraManager --------------------------- *)
\* _initialize_single_camera: the backends tried, the trial reads
Backends == {"CAP_V4L2", "CAP_ANY"}
TrialReads == 3

\* a device as _initialize_single_camera meets it: the backends under which it
\* opens, whether configuring it raises, and what each trial read would give:
\* a frame, no frame, or nothing before the alarm (or an exception)
DeviceEnvs ==
    [opens : SUBSET Backends, setRaises : BOOLEAN,
     reads : [1..TrialReads -> {"good", "bad", "timeout"}]]

\* a device that no backend opens
DeadDevice == [opens |-> {}, setRaises |-> FALSE, reads |-> [i \in 1..TrialReads |-> "bad"]]

\* the trial reads from the i-th on
RECURSIVE TestCapture(_, _)
TestCapture(reads, i) ==
    IF i > TrialReads THEN "fail"
    ELSE IF reads[i] = "good" THEN "ok"
    ELSE IF reads[i] = "timeout" THEN "error"
    ELSE TestCapture(reads, i + 1)

\* _initialize_single_camera on a device e
InitializeSingleCamera(e) ==
    IF e.opens = {} THEN "fail"
    ELSE IF e.setRaises THEN "error"
    ELSE TestCapture(e.reads, 1)

\* outcome of _initialize_single_camera for one device:
\*   "ok"    a backend opened it and a trial read gave a frame: (cap, frame)
\*   "fail"  no backend opened it, or 3 trial reads failed: released, (None, None)
\*   "error" opened, then TimeoutError/exception: (None, None), no release
InitOutcomes == {"ok", "fail", "error"}

\* an initialize_cameras that gives up at the first candidate that fails
InitializeCamerasAllOrNone(cands, o, addLeak) ==
    LET good == IF \A d \in cands : o[d] = "ok" THEN cands ELSE {}
        bad  == {d \in cands : o[d] = "error"}
    IN  /\ cameras' = cameras \cup good
        /\ frames' = Assign(frames, good, "cur")
        /\ openCaps' = openCaps \cup {<<d, "cur">> : d \in good}
        /\ leaked' = leaked \cup addLeak \cup bad

\* initialize_cameras(camera_infos) with per-device outcome o; addLeak are the
\* handles the caller's probes left open
InitializeCameras(cands, o, addLeak) ==
    LET good == {d \in cands : o[d] = "ok"}
        bad  == {d \in cands : o[d] = "error"}
    IN  /\ cameras' = cameras \cup good
        /\ frames' = Assign(frames, good, "cur")
        /\ openCaps' = openCaps \cup {<<d, "cur">> : d \in good}
        /\ leaked' = leaked \cup addLeak \cup bad

\* the bag of strays after the listed threads ths stop being listed
Unlisted(ths) ==
    [k \in StrayKinds |->
        strays[k] + (IF k.dev \in DOMAIN ths /\ Alive(ths[k.dev]) /\ AsStray(k.dev, ths[k.dev]) = k
                     THEN 1 ELSE 0)]

\* start_capture_threads() without the `if self.running: return`
StartCaptureThreadsAgain(cams) ==
    /\ running' = TRUE
    /\ capture_threads' = [d \in cams |-> NewThread]
    /\ strays' = Unlisted(capture_threads)
    /\ Sum(strays', StrayKinds) <= MaxStrays

\* start_capture_threads() over camera keys cams
StartCaptureThreads(cams) ==
    IF running
    THEN UNCHANGED <<running, capture_threads, strays>>
    ELSE /\ running' = TRUE
         /\ capture_threads' = [d \in cams |-> NewThread]
         /\ strays' = Unlisted(capture_threads)
         /\ Sum(strays', StrayKinds) <= MaxStrays

\* _capture_thread from the loop head `while self.running` to the next place
\* it waits: out of the loop, or into cap.read(); a read on a handle already
\* released gives no frame at once, and the thread is back at the loop head
LoopHead(run, open) == IF ~run THEN "done" ELSE IF open THEN "read" ELSE "check"

\* what a cap.read() entered on an open handle can give (also when another
\* thread releases the handle during the call)
ReadOutcomes == {"ok", "fail", "raise"}

\* a loop that also breaks when cap.read() returns no frame
AfterReadBreaks(out) == IF out = "ok" THEN "check" ELSE IF out = "fail" THEN "done" ELSE "crashed"

\* the thread's position after cap.read() gave out: an exception is logged and
\* breaks the loop, anything else goes on to the sleep and the loop head
AfterRead(out) == IF out = "raise" THEN "crashed" ELSE "check"

\* a worker that stores whatever cap.read() returned, a frame or None
StoreFrameAlways(d, cap, out) ==
    IF out = "raise" THEN frames ELSE Assign(frames, {d}, IF out = "ok" THEN cap ELSE "none")

\* a worker that stores its frame in every slot
StoreFrameAll(d, cap, out) == IF out = "ok" THEN Assign(frames, Devices, cap) ELSE frames

\* the frame map after cap.read() gave out for device d through handle <<d, cap>>
StoreFrame(d, cap, out) == IF out = "ok" THEN Assign(frames, {d}, cap) ELSE frames

\* a worker w of device d at the loop head
Checked(d, w) == [w EXCEPT !.pc = LoopHead(running, <<d, w.cap>> \in openCaps)]

\* a worker w after cap.read() gave out
HasRead(w, out) == [w EXCEPT !.pc = AfterRead(out)]

\* _capture_thread of a listed thread: loop head
WorkerCheck(d) ==
    /\ d \in DOMAIN capture_threads
    /\ capture_threads[d].pc = "check"
    /\ capture_threads' = [capture_threads EXCEPT ![d] = Checked(d, @)]
    /\ UNCHANGED <<cameras, frames, running, strays, openCaps, leaked>>
    /\ UNCHANGED ctlVars
    /\ UNCHANGED recVars
    /\ UNCHANGED auxVars

\* _capture_thread of a listed thread: cap.read() returns, the slot is
\* replaced, the pacing sleep
WorkerReadStep(d, out) ==
    /\ d \in DOMAIN capture_threads
    /\ capture_threads[d].pc = "read"
    /\ capture_threads' = [capture_threads EXCEPT ![d] = HasRead(@, out)]
    /\ frames' = StoreFrame(d, capture_threads[d].cap, out)
    /\ UNCHANGED <<cameras, running, strays, openCaps, leaked>>
    /\ UNCHANGED ctlVars
    /\ UNCHANGED recVars

WorkerRead(d, out) ==
    /\ WorkerReadStep(d, out)
    /\ UNCHANGED auxVars

\* the bag of strays after one stray k became w (or ended)
Moved(k, w) ==
    [x \in StrayKinds |->
        strays[x] - (IF x = k THEN 1 ELSE 0)
                  + (IF Alive(w) /\ x = AsStray(k.dev, w) THEN 1 ELSE 0)]

\* _capture_thread of a stray: loop head
StrayCheck(k) ==
    /\ strays[k] > 0
    /\ k.pc = "check"
    /\ strays' = Moved(k, Checked(k.dev, k))
    /\ UNCHANGED <<cameras, frames, running, capture_threads, openCaps, leaked>>
    /\ UNCHANGED ctlVars
    /\ UNCHANGED recVars
    /\ UNCHANGED auxVars

\* _capture_thread of a stray: cap.read() returns
StrayReadStep(k, out) ==
    /\ strays[k] > 0
    /\ k.pc = "read"
    /\ strays' = Moved(k, HasRead(k, out))
    /\ frames' = StoreFrame(k.dev, k.cap, out)
    /\ UNCHANGED <<cameras, running, capture_threads, openCaps, leaked>>
    /\ UNCHANGED ctlVars
    /\ UNCHANGED recVars

StrayRead(k, out) ==
    /\ StrayReadStep(k, out)
    /\ UNCHANGED auxVars

Worker ==
    \/ \E d \in Devices : WorkerCheck(d)
    \/ \E d \in Devices, out \in ReadOutcomes : WorkerRead(d, out)
    \/ \E k \in StrayKinds : StrayCheck(k)
    \/ \E k \in StrayKinds, out \in ReadOutcomes : StrayRead(k, out)

\* handles nothing refers to are finalized by the runtime at some later time
GarbageCollect ==
    /\ \E d \in leaked : leaked' = leaked \ {d}
    /\ UNCHANGED <<cameras, frames, running, capture_threads, strays, openCaps>>
    /\ UNCHANGED ctlVars
    /\ UNCHANGED recVars
    /\ UNCHANGED auxVars

\* stop_capture_threads: running = False (the joins follow in CmJoin)
CmSignal(cont) ==
    /\ running' = FALSE
    /\ pc' = "cm_join"
    /\ after' = cont

\* the threads a join with timeout can stop waiting for: ended ones, and ones
\* blocked in cap.read(); a thread at the loop head or in the 1/fps sleep ends
\* within the 2.0 s
Joinable(w) == w.pc \in Ended \cup {"read"}

\* stop_capture_threads: thread.join(timeout=2.0) for every thread, then
\* capture_threads = []
CmJoin ==
    /\ pc = "cm_join"
    /\ \A d \in DOMAIN capture_threads : Joinable(capture_threads[d])
    /\ capture_threads' = EmptyMap
    /\ strays' = Unlisted(capture_threads)
    /\ Sum(strays', StrayKinds) <= MaxStrays
    /\ pc' = "cm_release"
    /\ UNCHANGED <<after, savedCams, todo, ret>>
    /\ UNCHANGED <<cameras, frames, running, openCaps, leaked>>
    /\ UNCHANGED recVars
    /\ UNCHANGED auxVars

\* a cleanup whose release loop releases nothing
ReleaseNone(cams) == {<<h[1], "old">> : h \in openCaps}

\* the handles open after cleanup's release loop over cams; what is still open
\* is no handle of the camera map any more
ReleaseAll(cams) == {<<h[1], "old">> : h \in openCaps \ {<<d, "cur">> : d \in cams}}

\* cleanup() after stop_capture_threads: release every handle, clear both maps
CmRelease ==
    /\ pc = "cm_release"
    /\ openCaps' = ReleaseAll(cameras)
    /\ cameras' = {}
    /\ frames' = EmptyMap
    /\ strays' = [k \in StrayKinds |->
                      IF k.cap = "old" THEN strays[k] + strays[[k EXCEPT !.cap = "cur"]] ELSE 0]
    /\ pc' = after
    /\ after' = "loop"
    /\ UNCHANGED <<savedCams, todo, ret>>
    /\ UNCHANGED <<running, capture_threads, leaked>>
    /\ UNCHANGED recVars
    /\ UNCHANGED auxVars

(* ---------------------------- VideoRecorder ---------------------------- *)
\* a VideoWriter on a file named without the session's timestamp
NewWriterUnstamped(label, stamp) == [frames |-> 0, rel |-> 0, product |-> label, stamp |-> NoTime]

\* a VideoWriter just opened on clip_cam<d>_<label>_<stamp>.mp4: frames
\* written, release() calls
NewWriter(label, stamp) == [frames |-> 0, rel |-> 0, product |-> label, stamp |-> stamp]

\* start_recording with only the second early return
RefusedWithoutCameras == cameras = {}

\* start_recording's early returns
Refused == recording \/ cameras = {}

\* start_recording up to the product-label request: the two early returns,
\* else the call blocks in product_manager.get_product_input()
StartRecordingEnter ==
    IF Refused
    THEN /\ ret' = "False"
         /\ pc' = "loop"
         /\ UNCHANGED <<after, savedCams, todo, log>>
    ELSE /\ pc' = "dialog"
         /\ ret' = "none"
         /\ log' = NoLog
         /\ UNCHANGED <<after, savedCams, todo>>

\* a writer loop that gives up the session at the first writer that fails
OpenedAllOrNone(cams, isOpened) == IF cams \subseteq isOpened THEN cams ELSE {}

\* a writer loop over every configured device instead of the camera keys
OpenedAnyDevice(cams, isOpened) == isOpened

\* the keys start_recording leaves in writers: one attempt per camera key, kept
\* when the VideoWriter isOpened()
OpenedWriters(cams, isOpened) == cams \cap isOpened

\* a start_recording that sets the flag whatever the writer loop left
StartedAlways(ws) == TRUE

\* start_recording after the writer loop: `if self.writers`
Started(ws) == ws # {}

\* a start_recording that goes on whatever get_product_input returned
CancelledNever(label) == FALSE

\* start_recording: `if versioned_product_name is None`
Cancelled(label) == label = NoProduct

\* start_recording from the return of get_product_input: label is the answer,
\* stamp the clock reading, isOpened the devices whose writer opens
StartRecordingResume(label, stamp, isOpened) ==
    /\ pc = "dialog"
    /\ pc' = "loop"
    /\ IF Cancelled(label)
       THEN /\ ret' = "False"
            /\ UNCHANGED recVars
       ELSE /\ current_product' = label
            /\ log' = [cams |-> cameras, opened |-> cameras \cap isOpened]
            /\ writers' = [d \in OpenedWriters(cameras, isOpened) |-> NewWriter(label, stamp)]
            /\ ticks' = 0
            /\ IF Started(DOMAIN writers')
               THEN /\ recording' = TRUE
                    /\ record_start_time' = stamp
                    /\ ret' = "True"
               ELSE /\ ret' = "False"
                    /\ UNCHANGED <<recording, record_start_time>>
    /\ UNCHANGED <<after, savedCams, todo>>
    /\ UNCHANGED camVars
    /\ UNCHANGED auxVars

\* a write_frames that writes the slot twice
WrittenTwice(d) == IF d \in DOMAIN frames THEN 2 ELSE 0

\* frames one write_frames pass appends to the writer of device d
Written(d) == IF d \in DOMAIN frames THEN 1 ELSE 0

\* write_frames()
WriteFrames ==
    IF ~recording
    THEN UNCHANGED <<writers, ticks>>
    ELSE /\ ticks < MaxTicks
         /\ ticks' = ticks + 1
         /\ writers' = [d \in DOMAIN writers |-> [writers[d] EXCEPT !.frames = @ + Written(d)]]

\* a stop_recording that leaves the flag set while it releases
FlagStillSet == TRUE

\* the recording flag while stop_recording's release loop runs
FlagInRelease == FALSE

\* stop_recording: the early return, else the flag goes off and the release
\* loop starts
StopRecording(cont) ==
    IF ~recording
    THEN /\ pc' = "loop"
         /\ UNCHANGED <<after, savedCams, todo>>
         /\ UNCHANGED <<recording, current_product, record_start_time, log>>
    ELSE /\ recording' = FlagInRelease
         /\ todo' = DOMAIN writers
         /\ after' = cont
         /\ pc' = "stop_release"
         /\ UNCHANGED savedCams
         /\ UNCHANGED <<current_product, record_start_time, log>>

\* writer.release()
Released(w) == [w EXCEPT !.rel = @ + 1]

\* stop_recording: writer.release() for the next writer of the loop
StopRelease(d) ==
    /\ pc = "stop_release"
    /\ d \in todo
    /\ todo' = todo \ {d}
    /\ writers' = [writers EXCEPT ![d] = Released(@)]
    /\ UNCHANGED <<pc, after, savedCams, ret>>
    /\ UNCHANGED <<recording, current_product, record_start_time, ticks, log>>
    /\ UNCHANGED camVars
    /\ UNCHANGED auxVars

\* stop_recording: writers.clear() and return; from MultiCameraRecorder.cleanup
\* the camera manager's cleanup follows
StopEnd ==
    /\ pc = "stop_release"
    /\ todo = {}
    /\ writers' = EmptyMap
    /\ ticks' = 0
    /\ log' = NoLog
    /\ IF after = "exit"
       THEN /\ running' = FALSE
            /\ pc' = "cm_join"
            /\ after' = "done"
       ELSE /\ pc' = "loop"
            /\ UNCHANGED <<running, after>>
    /\ UNCHANGED <<savedCams, todo, ret>>
    /\ UNCHANGED <<recording, current_product, record_start_time>>
    /\ UNCHANGED <<cameras, frames, capture_threads, strays, openCaps, leaked>>
    /\ UNCHANGED auxVars

(* ------------------------- MultiCameraRecorder ------------------------ *)
AllClosed == [d \in Devices |-> "closed"]

\* the inputs of one detection, irrelevant ones fixed: the probes of a method
\* that does not run are not inputs
DetectionInputs(v, p2, g, p3) ==
    /\ v # {} => p2 = AllClosed
    /\ (v # {} \/ ProbeOk(p2, Devices) # {}) => (g = {} /\ p3 = AllClosed)
    /\ \A d \in Devices \ g : p3[d] = "closed"

DetectionCases ==
    {c \in (SUBSET Devices) \X [Devices -> ProbeOutcomes] \X (SUBSET Devices)
            \X [Devices -> ProbeOutcomes] : DetectionInputs(c[1], c[2], c[3], c[4])}

\* initialize_system(): detection, initialize_cameras, start_capture_threads;
\* okPc/failPc are where the caller goes on True/False
InitializeSystem(v, p2, g, p3, o, okPc, failPc) ==
    LET avail == DetectAvailable(v, p2, g, p3)
        lk    == DetectLeaks(v, p2, g, p3)
    IN  /\ \A d \in Devices \ avail : o[d] = "fail"
        /\ IF avail = {}
           THEN /\ leaked' = leaked \cup lk
                /\ pc' = failPc
                /\ UNCHANGED <<cameras, frames, running, capture_threads, strays, openCaps>>
           ELSE /\ InitializeCameras(avail, o, lk)
                /\ IF ProbeOk(o, avail) # {}
                   THEN /\ StartCaptureThreads(cameras')
                        /\ pc' = okPc
                   ELSE /\ pc' = failPc
                        /\ UNCHANGED <<running, capture_threads, strays>>
        /\ UNCHANGED <<after, savedCams, todo, ret>>
        /\ UNCHANGED recVars
        /\ UNCHANGED auxVars

\* run(): `if not self.initialize_system(): return`
Startup ==
    /\ pc = "start"
    /\ \E c \in DetectionCases, o \in [Devices -> InitOutcomes] :
          InitializeSystem(c[1], c[2], c[3], c[4], o, "loop", "done")

\* what ends the loop: Q/ESC, the window closed, KeyboardInterrupt, an exception
ExitEvents == {"q", "closed"}
KeyEvents == {"none", "space", "r", "d"} \cup ExitEvents

\* MultiCameraRecorder.cleanup(): video_recorder.cleanup(), then
\* camera_manager.cleanup()
AppCleanup ==
    IF recording
    THEN /\ StopRecording("exit")
         /\ UNCHANGED running
    ELSE /\ CmSignal("done")
         /\ UNCHANGED <<savedCams, todo>>
         /\ UNCHANGED <<recording, current_product, record_start_time, log>>

\* handle_key_input(key): SPACE
KeySpace ==
    IF recording
    THEN /\ StopRecording("loop")
         /\ ret' = "none"
    ELSE /\ StartRecordingEnter
         /\ UNCHANGED <<recording, current_product, record_start_time>>

\* restart_cameras / force_camera_detection up to the joins of cleanup()
KeyRedo(cont) ==
    /\ savedCams' = IF cont = "restart" THEN cameras ELSE savedCams
    /\ CmSignal(cont)
    /\ UNCHANGED todo
    /\ UNCHANGED <<recording, current_product, record_start_time, log>>

\* a loop that goes on while start_recording waits for the label
AtLoopOrDialog == pc \in {"loop", "dialog"}

\* run(): the control thread is in the loop, not inside a call made from it
AtLoop == pc = "loop"

\* run(): one pass of the loop body: write_frames, the display, the window
\* check, waitKey and handle_key_input(k)
LoopPass(k) ==
    /\ AtLoop
    /\ WriteFrames
    /\ CASE k = "none" -> /\ UNCHANGED <<pc, after, savedCams, todo, running>>
                         /\ ret' = "none"
                         /\ UNCHANGED <<recording, current_product, record_start_time, log>>
         [] k = "space" -> KeySpace /\ UNCHANGED running
         [] k = "r" -> KeyRedo("restart") /\ ret' = "none"
         [] k = "d" -> KeyRedo("detect") /\ ret' = "none"
         [] k \in ExitEvents -> AppCleanup /\ ret' = "none"
    /\ UNCHANGED <<cameras, frames, capture_threads, strays, openCaps, leaked>>
    /\ UNCHANGED auxVars

\* a force_camera_detection that detects again until a camera is found
RedetectUntilFound ==
    /\ pc = "detect"
    /\ \E c \in DetectionCases, o \in [Devices -> InitOutcomes] :
          InitializeSystem(c[1], c[2], c[3], c[4], o, "loop", "detect")

\* force_camera_detection after cleanup(): initialize_system()
Redetect ==
    /\ pc = "detect"
    /\ \E c \in DetectionCases, o \in [Devices -> InitOutcomes] :
          InitializeSystem(c[1], c[2], c[3], c[4], o, "loop", "loop")

\* restart_cameras after cleanup(): get_camera_info per saved device (gi),
\* initialize_cameras on those that gave info, start_capture_threads
Restart(gi, o) ==
    LET infos == ProbeOk(gi, savedCams)
        lk    == ProbeErr(gi, savedCams)
    IN  /\ pc = "restart"
        /\ \A d \in Devices \ savedCams : gi[d] = "closed"
        /\ \A d \in Devices \ infos : o[d] = "fail"
        /\ IF infos = {}
           THEN /\ leaked' = leaked \cup lk
                /\ UNCHANGED <<cameras, frames, running, capture_threads, strays, openCaps>>
           ELSE /\ InitializeCameras(infos, o, lk)
                /\ IF ProbeOk(o, infos) # {}
                   THEN StartCaptureThreads(cameras')
                   ELSE UNCHANGED <<running, capture_threads, strays>>
        /\ pc' = "loop"
        /\ savedCams' = {}
        /\ UNCHANGED <<after, todo, ret>>
        /\ UNCHANGED recVars
        /\ UNCHANGED auxVars

\* the application constructed: MultiCameraRecorder.__init__
AppInit ==
    /\ pc = "start"
    /\ after = "loop"
    /\ savedCams = {}
    /\ todo = {}
    /\ ret = "none"
    /\ cameras = {}
    /\ frames = EmptyMap
    /\ running = FALSE
    /\ capture_threads = EmptyMap
    /\ strays = NoStrays
    /\ openCaps = {}
    /\ leaked = {}
    /\ recording = FALSE
    /\ writers = EmptyMap
    /\ current_product = NoProduct
    /\ record_start_time = NoTime
    /\ ticks = 0
    /\ log = NoLog

\* initialize_cameras not called on its own
NoInitCall ==
    /\ camera_infos = {}
    /\ devEnv = [d \in Devices |-> DeadDevice]
    /\ initRet = "none"

\* the extractor not run
NoExtractAll ==
    /\ xpc = "idle"
    /\ clipFiles = {}
    /\ markers = {}
    /\ force_reprocess = FALSE
    /\ clip_groups = {}
    /\ products_to_process = {}
    /\ product = "none"
    /\ groups = {}
    /\ product_successful = 0
    /\ opened = {}
    /\ extracted = {}
    /\ succeeded = {}
    /\ processed_products = {}

\* extract_frames_from_group not called
NoExtractGroup ==
    /\ gpc = "idle"
    /\ fps_extract = 5
    /\ max_frames = 0
    /\ caps = {}
    /\ openClips = {}
    /\ frame_counts = <<>>
    /\ original_fps = 0
    /\ min_frames = 0
    /\ frame_interval = 1
    /\ extracted_count = 0
    /\ frame_index = 0
    /\ all_success = TRUE
    /\ xframes = {}
    /\ images = {}
    /\ xret = "none"

\* detect_available_cameras not followed step by step
NoDetectCall ==
    /\ dpc = "idle"
    /\ v4l2_cameras = {}
    /\ available_cameras = {}
    /\ device_id = 0
    /\ paths = {}
    /\ probeLog = <<>>
    /\ probeOpen = {}
    /\ infoRet = "none"
    /\ infoOpen = {}

\* what create_display_grid returns without a grid
NoGrid == [kind |-> "None", cells |-> <<>>]

\* create_display_grid not called
NoGridCall ==
    /\ gridpc = "idle"
    /\ dcameras = {}
    /\ dframes = {}
    /\ num_cameras = 0
    /\ display_frames = <<>>
    /\ grid = NoGrid

\* the legacy recorder not run
NoLegacyCall ==
    /\ lpc = "idle"
    /\ lrecording = FALSE
    /\ lwriters = EmptyMap
    /\ ltodo = {}
    /\ lthreads = EmptyMap
    /\ lfaults = {}

\* get_next_version not called
NoVersionCall ==
    /\ vpc = "idle"
    /\ base_product_name = <<>>
    /\ clips_exists = FALSE
    /\ clip_dirs = {}
    /\ next_name = <<>>

\* _extract_base_product_name not called
NoBaseCall ==
    /\ bpc = 0
    /\ versioned_name = <<>>
    /\ base_product = <<>>

Init ==
    /\ AppInit
    /\ readLog = NoRead
    /\ NoInitCall
    /\ NoExtractAll
    /\ NoExtractGroup
    /\ NoDetectCall
    /\ NoGridCall
    /\ NoBaseCall
    /\ NoVersionCall
    /\ NoLegacyCall

Next ==
    \/ Startup
    \/ \E k \in KeyEvents : LoopPass(k)
    \/ \E label \in Products \cup {NoProduct}, stamp \in Stamps, isOpened \in SUBSET Devices :
          StartRecordingResume(label, stamp, isOpened)
    \/ \E d \in Devices : StopRelease(d)
    \/ StopEnd
    \/ CmJoin
    \/ CmRelease
    \/ Redetect
    \/ \E gi \in [Devices -> ProbeOutcomes], o \in [Devices -> InitOutcomes] :
          Restart(gi, o)
    \/ Worker
    \/ GarbageCollect

Spec == Init /\ [][Next]_vars

(* ----------------- the components' operations called directly ---------- *)
\* VideoRecorder.start_recording() called between two loop passes
ApiStartRecording ==
    /\ pc = "loop"
    /\ StartRecordingEnter
    /\ UNCHANGED camVars
    /\ UNCHANGED <<recording, writers, current_product, record_start_time, ticks>>
    /\ UNCHANGED auxVars

\* VideoRecorder.stop_recording() called between two loop passes
ApiStopRecording ==
    /\ pc = "loop"
    /\ StopRecording("loop")
    /\ ret' = "none"
    /\ UNCHANGED <<writers, ticks>>
    /\ UNCHANGED camVars
    /\ UNCHANGED auxVars

\* VideoRecorder.write_frames() called between two loop passes
ApiWriteFrames ==
    /\ pc = "loop"
    /\ WriteFrames
    /\ ret' = "none"
    /\ UNCHANGED <<recording, current_product, record_start_time, log>>
    /\ UNCHANGED <<pc, after, savedCams, todo>>
    /\ UNCHANGED camVars
    /\ UNCHANGED auxVars

\* CameraManager.start_capture_threads() called between two loop passes
ApiStartCaptureThreads ==
    /\ pc = "loop"
    /\ StartCaptureThreads(cameras)
    /\ UNCHANGED <<cameras, frames, openCaps, leaked>>
    /\ UNCHANGED ctlVars
    /\ UNCHANGED recVars
    /\ UNCHANGED auxVars

NextApi ==
    \/ Next
    \/ ApiStartRecording
    \/ ApiStopRecording
    \/ ApiWriteFrames
    \/ ApiStartCaptureThreads

SpecApi == Init /\ [][NextApi]_vars

(* ------------- run() left from inside a call made by the loop ---------- *)
\* run(): KeyboardInterrupt or an exception raised while handle_key_input is
\* inside start_recording (at the dialog), stop_recording (in its release
\* loop), restart_cameras or force_camera_detection: the except clauses, then
\* `finally: self.cleanup()`
Interrupt ==
    /\ \/ pc \in {"dialog", "restart", "detect"}
       \/ pc = "stop_release" /\ after = "loop"
       \/ pc \in {"cm_join", "cm_release"} /\ after \in {"restart", "detect"}
    /\ AppCleanup
    /\ ret' = "none"
    /\ UNCHANGED <<writers, ticks>>
    /\ UNCHANGED <<cameras, frames, capture_threads, strays, openCaps, leaked>>
    /\ UNCHANGED auxVars

NextExit ==
    \/ Next
    \/ Interrupt

SpecExit == Init /\ [][NextExit]_vars

(* ------------- the camera manager with the workers' log followed ------- *)
\* WorkerRead, and what the worker logged about the read
LoggedRead(d, out) ==
    /\ WorkerReadStep(d, out)
    /\ readLog' = <<d, out>>
    /\ UNCHANGED <<initVars, xallVars, xgrpVars, detVars, gridVars, baseVars, verVars, legVars>>

\* StrayRead, and what the worker logged about the read
LoggedStrayRead(k, out) ==
    /\ StrayReadStep(k, out)
    /\ readLog' = <<k.dev, out>>
    /\ UNCHANGED <<initVars, xallVars, xgrpVars, detVars, gridVars, baseVars, verVars, legVars>>

\* the application with no recording
NextCapture ==
    \/ Startup
    \/ \E k \in KeyEvents \ {"space"} : LoopPass(k)
    \/ CmJoin
    \/ CmRelease
    \/ Redetect
    \/ \E gi \in [Devices -> ProbeOutcomes], o \in [Devices -> InitOutcomes] :
          Restart(gi, o)
    \/ \E d \in Devices : WorkerCheck(d)
    \/ \E d \in Devices, out \in ReadOutcomes : LoggedRead(d, out)
    \/ \E k \in StrayKinds : StrayCheck(k)
    \/ \E k \in StrayKinds, out \in ReadOutcomes : LoggedStrayRead(k, out)
    \/ GarbageCollect

SpecCapture == Init /\ [][NextCapture]_vars

(* ------------------- initialize_cameras called on its own -------------- *)
\* the outcome of _initialize_single_camera for every device
SingleOutcomes == [d \in Devices |-> InitializeSingleCamera(devEnv[d])]

\* a new manager, candidates and devices of any kind
InitCameras ==
    /\ AppInit
    /\ readLog = NoRead
    /\ camera_infos \in SUBSET Devices
    /\ devEnv \in [Devices -> DeviceEnvs]
    /\ initRet = "none"
    /\ NoExtractAll
    /\ NoExtractGroup
    /\ NoDetectCall
    /\ NoGridCall
    /\ NoBaseCall
    /\ NoVersionCall
    /\ NoLegacyCall

\* CameraManager.initialize_cameras(camera_infos)
InitializeCamerasCall ==
    /\ initRet = "none"
    /\ InitializeCameras(camera_infos, SingleOutcomes, {})
    /\ initRet' = IF ProbeOk(SingleOutcomes, camera_infos) # {} THEN "True" ELSE "False"
    /\ UNCHANGED <<running, capture_threads, strays>>
    /\ UNCHANGED ctlVars
    /\ UNCHANGED recVars
    /\ UNCHANGED <<readLog, camera_infos, devEnv>>
    /\ UNCHANGED <<xallVars, xgrpVars, detVars, gridVars, baseVars, verVars, legVars>>

NextInitCameras == InitializeCamerasCall

SpecInitCameras == InitCameras /\ [][NextInitCameras]_vars

(* ---------------------------- FrameExtractor -------------------------- *)
\* self.camera_devices, the ids a clip group must hold
camera_devices == {0, 2, 4, 6}

\* A clip file clips_dir/<dir>/clip_cam<cam>_<product>_<stamp>.mp4.  The
\* recorder writes a clip into the directory of its own product.
ClipDirs == {"cola_v1", "soda_v1"}
ClipStamps == {"t1", "t2"}
ClipSlots == ClipDirs \X ClipStamps
ClipFile(d, c, t) == [dir |-> d, cam |-> c, product |-> d, stamp |-> t]

\* the camera ids one recording session left clips of: none, all four, one
\* missing, one more, one replaced, a single one
GroupShapes ==
    { {}, camera_devices, camera_devices \ {6}, camera_devices \cup {8},
      (camera_devices \ {0}) \cup {8}, {0} }

FilesOf(sh) ==
    UNION { { ClipFile(sl[1], c, sl[2]) : c \in sh[sl] } : sl \in ClipSlots }

\* timestamp_groups[t]['clips'] of one product directory
ClipsOf(files, d, t) == { f \in files : f.dir = d /\ f.stamp = t }
CamsOf(clips) == { f.cam : f \in clips }

\* the filter of find_clip_groups with the membership test left out
QualifiesAnyFour(clips) == Cardinality(CamsOf(clips)) = 4

\* the filter of find_clip_groups: four clips, every expected id among them
Qualifies(clips) ==
    /\ Cardinality(CamsOf(clips)) = 4
    /\ \A cam_id \in camera_devices : cam_id \in CamsOf(clips)

\* the product name of a group: the one in the name of the file of its
\* timestamp that glob lists first, any of its files
GroupProducts(clips) == { f.product : f \in clips }

\* the timestamp groups of all product directories that pass the filter
CompleteSlots(files) ==
    { sl \in ClipSlots : /\ ClipsOf(files, sl[1], sl[2]) # {}
                         /\ Qualifies(ClipsOf(files, sl[1], sl[2])) }

\* all_groups before keys collide: each complete timestamp group under the
\* product name pr gives it
Labelled(files, pr) ==
    { [product |-> pr[sl], timestamp |-> sl[2], clips |-> ClipsOf(files, sl[1], sl[2])] :
        sl \in CompleteSlots(files) }

\* all_groups[group_key] = ...: of the groups with one key
\* "{product}_{timestamp}" the one assigned last stays
OnePerKey(gs) ==
    { S \in SUBSET gs :
        \A g \in gs :
            Cardinality({ h \in S : h.product = g.product /\ h.timestamp = g.timestamp }) = 1 }

\* FrameExtractor.find_clip_groups: the dicts it can return, by the order
\* in which os.listdir and glob list the directories and files
FindClipGroups(files) ==
    UNION { OnePerKey(Labelled(files, pr)) :
              pr \in { q \in [CompleteSlots(files) -> ClipDirs] :
                         \A sl \in CompleteSlots(files) :
                             q[sl] \in GroupProducts(ClipsOf(files, sl[1], sl[2])) } }

\* the marker check answering no for every product
IsProductProcessedNever(p, marks) == FALSE

\* FrameExtractor.is_product_processed
IsProductProcessed(p, marks) == p \in marks

GroupsOfProduct(gs, p) == { g \in gs : g.product = p }

\* What extract_frames_from_group(g) comes to: "ok" writes images and
\* returns True, "noframe" returns True with the first read failed,
\* "empty" returns False on a clip without frames, "unopened" returns False
\* at the first clip that does not open.
GroupOutcomes == {"ok", "noframe", "empty", "unopened"}
Succeeded(outcome) == outcome \in {"ok", "noframe"}

\* the clips extract_frames_from_group made a VideoCapture for: all of
\* them, or the ones up to the clip that did not open (the clips taken in
\* the order of their names)
Tried(g, outcome) ==
    IF outcome = "unopened"
    THEN { { f \in g.clips : f.cam <= c } : c \in CamsOf(g.clips) }
    ELSE {g.clips}

\* cv2.CAP_PROP_FPS of the reference clip, and the fps_extract arguments
SourceFps == {0, 9, 10, 15, 30}
ExtractFps == {5, 10}

\* the clips that fail to open, or the cameras whose read fails in one pass
Failures == {{}} \cup { {c} : c \in camera_devices }

\* the cameras a loop over S in ascending order deals with before it meets
\* one of fails
Before(S, fails) == { c \in S : \A b \in fails : c < b }

\* min(frame_counts.values())
MinFrames(counts) ==
    CHOOSE m \in { counts[c] : c \in DOMAIN counts } :
        \A c \in DOMAIN counts : m <= counts[c]

\* a frame interval taken without the max(1, ...)
FrameIntervalUnclamped(fps, req) == IF fps > 0 THEN fps \div req ELSE 1

\* frame_interval = max(1, int(original_fps / fps_extract)) if original_fps > 0 else 1
FrameInterval(fps, req) ==
    IF fps > 0
    THEN (IF fps \div req > 1 THEN fps \div req ELSE 1)
    ELSE 1

\* the loop going on to one frame index more than min_frames allows
StopPastEnd(cap, count, index, minf) ==
    \/ cap # 0 /\ count >= cap
    \/ index > minf

\* the two breaks at the end of a pass: the cap, when one is given, and
\* the end of the shortest clip
Stop(cap, count, index, minf) ==
    \/ cap # 0 /\ count >= cap
    \/ index >= minf

\* the frames read written out whether or not every read succeeded
EmitPartial(read, ok) == read

\* the cameras a pass writes an image for: all it read, unless a read
\* failed or nothing was read
Emit(read, ok) == IF ~ok \/ read = {} THEN {} ELSE read

\* the image files of one pass
NewImages(cams, n, index) == { [cam |-> c, n |-> n, frame |-> index] : c \in cams }

(* -------------------- extract_all_clips run on a clip tree ------------- *)
InitExtractAll ==
    /\ AppInit
    /\ readLog = NoRead
    /\ NoInitCall
    /\ xpc = "find"
    /\ \E sh \in [ClipSlots -> GroupShapes] : clipFiles = FilesOf(sh)
    /\ markers \in SUBSET ClipDirs
    /\ force_reprocess \in BOOLEAN
    /\ clip_groups = {}
    /\ products_to_process = {}
    /\ product = "none"
    /\ groups = {}
    /\ product_successful = 0
    /\ opened = {}
    /\ extracted = {}
    /\ succeeded = {}
    /\ processed_products = {}
    /\ NoExtractGroup
    /\ NoDetectCall
    /\ NoGridCall
    /\ NoBaseCall
    /\ NoVersionCall
    /\ NoLegacyCall

UnchangedApp ==
    UNCHANGED <<ctlVars, camVars, recVars, ticks, log, readLog, initVars, xgrpVars, detVars,
                gridVars, baseVars, verVars, legVars>>

\* find_clip_groups, the grouping by product and the filter of the
\* products that hold a marker
XFind ==
    /\ xpc = "find"
    /\ clip_groups' \in FindClipGroups(clipFiles)
    /\ products_to_process' =
           { p \in { g.product : g \in clip_groups' } :
               ~(~force_reprocess /\ IsProductProcessed(p, markers)) }
    /\ xpc' = IF clip_groups' = {} \/ products_to_process' = {} THEN "done" ELSE "product"
    /\ UNCHANGED <<clipFiles, markers, force_reprocess, product, groups,
                   product_successful, opened, extracted, succeeded, processed_products>>
    /\ UnchangedApp

\* the outer loop takes the next product
XNextProduct ==
    /\ xpc = "product"
    /\ IF products_to_process = {}
       THEN /\ xpc' = "done"
            /\ UNCHANGED <<products_to_process, product, groups, product_successful>>
       ELSE \E p \in products_to_process :
                /\ product' = p
                /\ products_to_process' = products_to_process \ {p}
                /\ groups' = GroupsOfProduct(clip_groups, p)
                /\ product_successful' = 0
                /\ xpc' = "group"
    /\ UNCHANGED <<clipFiles, markers, force_reprocess, clip_groups, opened, extracted,
                   succeeded, processed_products>>
    /\ UnchangedApp

\* the inner loop: extract_frames_from_group on the next group
XExtractGroup(g, outcome) ==
    /\ xpc = "group"
    /\ g \in groups
    /\ groups' = groups \ {g}
    /\ \E tried \in Tried(g, outcome) : opened' = opened \cup tried
    /\ extracted' = IF outcome = "ok" THEN extracted \cup {g} ELSE extracted
    /\ product_successful' = product_successful + (IF Succeeded(outcome) THEN 1 ELSE 0)
    /\ succeeded' = IF Succeeded(outcome) THEN succeeded \cup {g} ELSE succeeded
    /\ UNCHANGED <<xpc, clipFiles, markers, force_reprocess, clip_groups,
                   products_to_process, product, processed_products>>
    /\ UnchangedApp

\* a product counted complete as soon as one of its groups returned True
SomeSucceeded(count, gs) == count > 0

\* if product_successful == len(groups)
AllSucceeded(count, gs) == count = Cardinality(gs)

\* after the inner loop: mark_product_as_processed when every group
\* returned True; writing the marker can fail
XEndProduct(markOk) ==
    /\ xpc = "group"
    /\ groups = {}
    /\ IF /\ AllSucceeded(product_successful, GroupsOfProduct(clip_groups, product))
          /\ markOk
       THEN /\ markers' = markers \cup {product}
            /\ processed_products' = processed_products \cup {product}
       ELSE UNCHANGED <<markers, processed_products>>
    /\ xpc' = "product"
    /\ UNCHANGED <<clipFiles, force_reprocess, clip_groups, products_to_process,
                   product, groups, product_successful, opened, extracted, succeeded>>
    /\ UnchangedApp

NextExtractAll ==
    \/ XFind
    \/ XNextProduct
    \/ \E g \in groups, outcome \in GroupOutcomes : XExtractGroup(g, outcome)
    \/ \E markOk \in BOOLEAN : XEndProduct(markOk)

SpecExtractAll == InitExtractAll /\ [][NextExtractAll]_vars

(* ------------- find_clip_groups run on a tree of any file names -------- *)
\* the other product directory
OtherDir(d) == CHOOSE e \in ClipDirs : e # d

\* the cameras of a session whose clip is named for the other product:
\* none, camera 6, all
MisnamedShapes == { {}, {6}, camera_devices \cup {8} }

\* the files of a tree whose sessions hold the cameras sh gives, those of
\* mis named for the other product
NamedFilesOf(sh, mis) ==
    UNION { { [dir |-> sl[1], cam |-> c,
               product |-> IF c \in mis[sl] THEN OtherDir(sl[1]) ELSE sl[1],
               stamp |-> sl[2]] : c \in sh[sl] } : sl \in ClipSlots }

InitFindGroups ==
    /\ AppInit
    /\ readLog = NoRead
    /\ NoInitCall
    /\ NoExtractGroup
    /\ NoDetectCall
    /\ NoGridCall
    /\ NoBaseCall
    /\ NoVersionCall
    /\ NoLegacyCall
    /\ xpc = "find"
    /\ \E sh \in [ClipSlots -> GroupShapes], mis \in [ClipSlots -> MisnamedShapes] :
           clipFiles = NamedFilesOf(sh, mis)
    /\ markers = {}
    /\ force_reprocess = FALSE
    /\ clip_groups = {}
    /\ products_to_process = {}
    /\ product = "none"
    /\ groups = {}
    /\ product_successful = 0
    /\ opened = {}
    /\ extracted = {}
    /\ succeeded = {}
    /\ processed_products = {}

\* find_clip_groups called and returned
FindClipGroupsCall ==
    /\ xpc = "find"
    /\ clip_groups' \in FindClipGroups(clipFiles)
    /\ xpc' = "found"
    /\ UNCHANGED <<clipFiles, markers, force_reprocess, products_to_process, product, groups,
                   product_successful, opened, extracted, succeeded, processed_products>>
    /\ UnchangedApp

NextFindGroups == FindClipGroupsCall

SpecFindGroups == InitFindGroups /\ [][NextFindGroups]_vars

(* -------------- detect_available_cameras followed step by step --------- *)
\* the ids of the sequential method, and the ids a /dev/video* node or a
\* line of the v4l2-ctl listing can carry (one lies beyond the sequence)
SeqIds == 0..(max_cameras - 1)
VideoIds == 0..max_cameras

\* _detect_with_v4l2: "listed" v4l2-ctl ran, its listing parsed; "failed" it
\* returned non-zero, timed out or was not found (caught, nothing found);
\* "raises" subprocess.run raised an exception of another class
V4l2Outcomes == {"listed", "failed", "raises"}

\* except (subprocess.TimeoutExpired, FileNotFoundError, subprocess.SubprocessError)
V4l2Caught(kind) == kind # "raises"

InitDetect ==
    /\ AppInit
    /\ readLog = NoRead
    /\ NoInitCall
    /\ NoExtractAll
    /\ NoExtractGroup
    /\ NoGridCall
    /\ NoBaseCall
    /\ NoVersionCall
    /\ NoLegacyCall
    /\ dpc = "v4l2"
    /\ v4l2_cameras = {}
    /\ available_cameras = {}
    /\ device_id = 0
    /\ paths = {}
    /\ probeLog = <<>>
    /\ probeOpen = {}
    /\ infoRet = "none"
    /\ infoOpen = {}

UnchangedByDetect ==
    UNCHANGED <<ctlVars, camVars, recVars, ticks, log, readLog, initVars, xallVars, xgrpVars,
                gridVars, baseVars, verVars, legVars>>

\* one _test_camera_quick(d) of method m with outcome out, recorded
Probed(m, d, out) ==
    /\ probeLog' = Append(probeLog, <<m, d, out>>)
    /\ available_cameras' = IF out = "ok" THEN available_cameras \cup {d}
                            ELSE available_cameras
    /\ probeOpen' = IF out = "error" THEN probeOpen \cup {d} ELSE probeOpen

\* the methods after the first one go on while nothing has been found
NextMethodAlways(found) == TRUE

\* if not available_cameras
NextMethod(found) == found = {}

\* Method 1: _detect_with_v4l2 and available_cameras.update
DetectV4l2(kind, listing) ==
    /\ dpc = "v4l2"
    /\ IF V4l2Caught(kind)
       THEN /\ v4l2_cameras' = IF kind = "listed" THEN listing ELSE {}
            /\ available_cameras' = v4l2_cameras'
            /\ dpc' = IF NextMethod(available_cameras') THEN "seq" ELSE "list"
       ELSE /\ dpc' = "raised"
            /\ UNCHANGED <<v4l2_cameras, available_cameras>>
    /\ UNCHANGED <<device_id, paths, probeLog, probeOpen, infoRet, infoOpen>>
    /\ UnchangedByDetect

\* Method 2: one pass of `for device_id in range(self.max_cameras)`
DetectSequential(out) ==
    /\ dpc = "seq"
    /\ device_id < max_cameras
    /\ Probed("seq", device_id, out)
    /\ device_id' = device_id + 1
    /\ dpc' = IF device_id' < max_cameras THEN "seq" ELSE "list"
    /\ UNCHANGED <<v4l2_cameras, paths, infoRet, infoOpen>>
    /\ UnchangedByDetect

\* Method 3, entry: sorted(glob.glob("/dev/video*")), or the return when
\* something has been found
DetectGlob(listing) ==
    /\ dpc = "list"
    /\ IF NextMethod(available_cameras)
       THEN /\ paths' = listing
            /\ dpc' = IF listing = {} THEN "done" ELSE "glob"
       ELSE /\ dpc' = "done"
            /\ UNCHANGED paths
    /\ UNCHANGED <<v4l2_cameras, available_cameras, device_id, probeLog, probeOpen,
                   infoRet, infoOpen>>
    /\ UnchangedByDetect

\* Method 3: one pass of the loop over the paths
DetectFile(out) ==
    /\ dpc = "glob"
    /\ LET d == CHOOSE x \in paths : \A y \in paths : x <= y
       IN  /\ Probed("glob", d, out)
           /\ paths' = paths \ {d}
           /\ dpc' = IF paths' = {} THEN "done" ELSE "glob"
    /\ UNCHANGED <<v4l2_cameras, device_id, infoRet, infoOpen>>
    /\ UnchangedByDetect

\* CameraDetector.get_camera_info(d): "ok" the device opened, its properties
\* were read, the handle released and the info returned; "closed" it did not
\* open, None; "error" it opened and reading the properties raised, None
GetCameraInfo(d, out) ==
    /\ infoRet = "none"
    /\ infoRet' = IF out = "ok" THEN "info" ELSE "None"
    /\ infoOpen' = IF out = "error" THEN infoOpen \cup {d} ELSE infoOpen
    /\ UNCHANGED <<dpc, v4l2_cameras, available_cameras, device_id, paths, probeLog,
                   probeOpen>>
    /\ UnchangedByDetect

NextDetect ==
    \/ \E kind \in V4l2Outcomes, listing \in SUBSET VideoIds : DetectV4l2(kind, listing)
    \/ \E out \in ProbeOutcomes : DetectSequential(out)
    \/ \E listing \in SUBSET VideoIds : DetectGlob(listing)
    \/ \E out \in ProbeOutcomes : DetectFile(out)
    \/ \E d \in VideoIds, out \in ProbeOutcomes : GetCameraInfo(d, out)

SpecDetect == InitDetect /\ [][NextDetect]_vars

(* ------------------- create_display_grid called on its own ------------- *)
\* device ids the camera map and the frame map can hold
GridDevices == {0, 2, 4, 6, 8}

\* sorted(S) as a sequence
RECURSIVE Sorted(_)
Sorted(S) ==
    IF S = {} THEN <<>>
    ELSE LET m == CHOOSE x \in S : \A y \in S : x <= y
         IN  <<m>> \o Sorted(S \ {m})

\* the 2x2 grid taken whatever the number of cameras
LayoutTwoByTwo(n) == <<1, 2, 3, 4>>

\* _create_grid: the indices into display_frames (from 1) of the cells, row
\* by row; 0 is the black filler frame
Layout(n) ==
    IF n = 1 THEN <<1>>
    ELSE IF n = 2 THEN <<1, 2>>
    ELSE IF n = 3 THEN <<1, 2, 3, 0>>
    ELSE IF n >= 4 THEN <<1, 2, 3, 4>>
    ELSE <<>>

\* _create_grid(display_frames, num_cameras, ...)
CreateGrid(df, n) ==
    IF n < 1 THEN NoGrid
    ELSE IF \E i \in 1..Len(Layout(n)) : Layout(n)[i] > Len(df)
         THEN [kind |-> "IndexError", cells |-> <<>>]
         ELSE [kind |-> "grid",
               cells |-> [i \in 1..Len(Layout(n)) |->
                            IF Layout(n)[i] = 0 THEN <<"black", 0>>
                            ELSE <<"cam", df[Layout(n)[i]]>>]]

\* the control loop calls create_display_grid between the manager's
\* operations, when every camera of the map has its slot in the frame map
\* (initialize_cameras seeds it, cleanup clears both maps)
InitGrid ==
    /\ AppInit
    /\ readLog = NoRead
    /\ NoInitCall
    /\ NoExtractAll
    /\ NoExtractGroup
    /\ NoDetectCall
    /\ NoBaseCall
    /\ NoVersionCall
    /\ NoLegacyCall
    /\ gridpc = "call"
    /\ dcameras \in SUBSET GridDevices
    /\ dframes \in { F \in SUBSET GridDevices : dcameras \subseteq F }
    /\ num_cameras = 0
    /\ display_frames = <<>>
    /\ grid = NoGrid

\* DisplayManager.create_display_grid
CreateDisplayGrid ==
    /\ gridpc = "call"
    /\ gridpc' = "done"
    /\ IF dframes = {}
       THEN /\ grid' = NoGrid
            /\ UNCHANGED <<num_cameras, display_frames>>
       ELSE /\ num_cameras' = Cardinality(dcameras)
            /\ display_frames' = Sorted({ d \in dcameras : d \in dframes })
            /\ grid' = CreateGrid(display_frames', num_cameras')
    /\ UNCHANGED <<dcameras, dframes>>
    /\ UNCHANGED <<ctlVars, camVars, recVars, ticks, log, readLog, initVars, xallVars,
                   xgrpVars, detVars, baseVars, verVars, legVars>>

NextGrid == CreateDisplayGrid

SpecGrid == InitGrid /\ [][NextGrid]_vars

(* ---------------------------- ProductManager -------------------------- *)
\* a product name is a string of these characters: a letter, the
\* underscore, the v and a digit
NameChars == {"a", "_", "v", "1"}
Names == UNION { [1..n -> NameChars] : n \in 0..MaxNameLen }

\* \d of the pattern
IsDigit(c) == c = "1"

\* the length of the run of digits a name ends with
RECURSIVE TrailingDigits(_)
TrailingDigits(x) ==
    IF x = <<>> \/ ~IsDigit(x[Len(x)]) THEN 0
    ELSE 1 + TrailingDigits(SubSeq(x, 1, Len(x) - 1))

\* ProductManager._extract_base_product_name: re.match(r'^(.+)_v\d+$', name),
\* group 1 when it matches, else the name
ExtractBaseProductName(x) ==
    LET k == TrailingDigits(x)
        n == Len(x)
    IN  IF k >= 1 /\ n - k >= 3 /\ x[n - k] = "v" /\ x[n - k - 1] = "_"
        THEN SubSeq(x, 1, n - k - 2)
        ELSE x

InitBase ==
    /\ AppInit
    /\ readLog = NoRead
    /\ NoInitCall
    /\ NoExtractAll
    /\ NoExtractGroup
    /\ NoDetectCall
    /\ NoGridCall
    /\ NoVersionCall
    /\ NoLegacyCall
    /\ bpc = 0
    /\ versioned_name \in Names
    /\ base_product = versioned_name

\* _extract_base_product_name applied to the name, then to its own result
ExtractBaseCall ==
    /\ bpc < 2
    /\ bpc' = bpc + 1
    /\ base_product' = ExtractBaseProductName(base_product)
    /\ UNCHANGED versioned_name
    /\ UNCHANGED <<ctlVars, camVars, recVars, ticks, log, readLog, initVars, xallVars,
                   xgrpVars, detVars, gridVars, verVars, legVars>>

NextBase == ExtractBaseCall

SpecBase == InitBase /\ [][NextBase]_vars

(* ------------------- get_next_version called on its own ---------------- *)
\* product names: a plain one and two with a bracket, as typed in the dialog
\* (get_product_input only strips, lowers and replaces spaces)
ProductNames == { <<"a">>, <<"[", "a", "]">>, <<"[">> }

\* the digits after _v in a directory name
VersionTexts == { <<"1">>, <<"2">>, <<"0", "2">>, <<"9">> }

\* directory names in clips_base_dir: versions of the products, and one
\* that only looks like a version
ClipDirNames ==
    { b \o <<"_", "v">> \o t : b \in ProductNames, t \in VersionTexts }
        \cup { <<"a", "_", "v", "a">> }

DecimalDigits == <<"0", "1", "2", "3", "4", "5", "6", "7", "8", "9">>

\* Path.glob's match of one name against a pattern (fnmatch): * is any run
\* of characters, [..] one character of the class, a [ that is never closed
\* and everything else itself
RECURSIVE GlobMatch(_, _)
GlobMatch(pat, name) ==
    LET ends == { i \in 3..Len(pat) : pat[i] = "]" }
        e == CHOOSE i \in ends : \A j \in ends : i <= j
    IN  IF pat = <<>> THEN name = <<>>
        ELSE IF pat[1] = "*"
        THEN \E k \in 0..Len(name) : GlobMatch(Tail(pat), SubSeq(name, k + 1, Len(name)))
        ELSE IF pat[1] = "[" /\ ends # {}
        THEN /\ name # <<>>
             /\ name[1] \in { pat[i] : i \in 2..(e - 1) }
             /\ GlobMatch(SubSeq(pat, e + 1, Len(pat)), Tail(name))
        ELSE /\ name # <<>>
             /\ name[1] = pat[1]
             /\ GlobMatch(Tail(pat), Tail(name))

\* re.match(f'^{re.escape(base)}_v(\d+)$', name) and int(match.group(1));
\* -1 stands for no match
VersionOf(base, name) ==
    LET n == Len(base) + 2
        IsDec(c) == \E i \in 1..10 : DecimalDigits[i] = c
        Val(c) == (CHOOSE i \in 1..10 : DecimalDigits[i] = c) - 1
        RECURSIVE IntOf(_)
        IntOf(ds) ==
            IF ds = <<>> THEN 0
            ELSE 10 * IntOf(SubSeq(ds, 1, Len(ds) - 1)) + Val(ds[Len(ds)])
    IN  IF /\ Len(name) > n
           /\ SubSeq(name, 1, n) = base \o <<"_", "v">>
           /\ \A i \in (n + 1)..Len(name) : IsDec(name[i])
        THEN IntOf(SubSeq(name, n + 1, Len(name)))
        ELSE -1

\* ProductManager.get_next_version
GetNextVersion(base, exists, dirs) ==
    LET RECURSIVE Str(_)
        Str(k) == IF k < 10 THEN <<DecimalDigits[k + 1]>>
                  ELSE Str(k \div 10) \o <<DecimalDigits[(k % 10) + 1]>>
        existing_dirs == { d \in dirs : GlobMatch(base \o <<"_", "v", "*">>, d) }
        version_numbers == { VersionOf(base, d) : d \in existing_dirs } \ {-1}
        max == CHOOSE v \in version_numbers : \A w \in version_numbers : w <= v
    IN  IF ~exists THEN base \o <<"_", "v", "1">>
        ELSE IF existing_dirs = {} THEN base \o <<"_", "v", "1">>
        ELSE IF version_numbers = {} THEN base \o <<"_", "v", "1">>
        ELSE base \o <<"_", "v">> \o Str(max + 1)

InitVersion ==
    /\ AppInit
    /\ readLog = NoRead
    /\ NoInitCall
    /\ NoExtractAll
    /\ NoExtractGroup
    /\ NoDetectCall
    /\ NoGridCall
    /\ NoBaseCall
    /\ NoLegacyCall
    /\ vpc = "call"
    /\ base_product_name \in ProductNames
    /\ clips_exists \in BOOLEAN
    /\ clip_dirs \in (IF clips_exists THEN SUBSET ClipDirNames ELSE {{}})
    /\ next_name = <<>>

GetNextVersionCall ==
    /\ vpc = "call"
    /\ vpc' = "ret"
    /\ next_name' = GetNextVersion(base_product_name, clips_exists, clip_dirs)
    /\ UNCHANGED <<base_product_name, clips_exists, clip_dirs>>
    /\ UNCHANGED <<ctlVars, camVars, recVars, ticks, log, readLog, initVars, xallVars,
                   xgrpVars, detVars, gridVars, baseVars, legVars>>

NextVersion == GetNextVersionCall

SpecVersion == InitVersion /\ [][NextVersion]_vars

(* ------------- the legacy recorder: capture threads that write --------- *)
\* record.py after initialize_cameras and start_capture_threads: a thread
\* per camera at its loop, no recording
InitLegacy ==
    /\ AppInit
    /\ readLog = NoRead
    /\ NoInitCall
    /\ NoExtractAll
    /\ NoExtractGroup
    /\ NoDetectCall
    /\ NoGridCall
    /\ NoBaseCall
    /\ NoVersionCall
    /\ lpc = "loop"
    /\ lrecording = FALSE
    /\ lwriters = EmptyMap
    /\ ltodo = {}
    /\ lthreads = [d \in Devices |-> "loop"]
    /\ lfaults = {}

UnchangedByLegacy ==
    UNCHANGED <<ctlVars, camVars, recVars, ticks, log, readLog, initVars, xallVars,
                xgrpVars, detVars, gridVars, baseVars, verVars>>

\* legacy start_recording (SPACE while not recording): a new dict, a writer
\* for every camera whose VideoWriter opens, the flag when there is one
LStartRecording(isOpened) ==
    /\ lpc = "loop"
    /\ ~lrecording
    /\ lwriters' = [d \in isOpened |-> "open"]
    /\ lrecording' = (isOpened # {})
    /\ UNCHANGED <<lpc, ltodo, lthreads, lfaults>>
    /\ UnchangedByLegacy

\* legacy stop_recording (SPACE while recording): the flag goes off, the
\* release loop starts
LStopRecording ==
    /\ lpc = "loop"
    /\ lrecording
    /\ lrecording' = FALSE
    /\ ltodo' = DOMAIN lwriters
    /\ lpc' = "release"
    /\ UNCHANGED <<lwriters, lthreads, lfaults>>
    /\ UnchangedByLegacy

\* legacy stop_recording: writer.release() for the next writer; after the
\* last one self.writers = {}
LRelease ==
    /\ lpc = "release"
    /\ IF ltodo # {}
       THEN /\ \E d \in ltodo :
                 /\ lwriters' = [lwriters EXCEPT ![d] = "released"]
                 /\ ltodo' = ltodo \ {d}
            /\ UNCHANGED lpc
       ELSE /\ lwriters' = EmptyMap
            /\ lpc' = "loop"
            /\ UNCHANGED ltodo
    /\ UNCHANGED <<lrecording, lthreads, lfaults>>
    /\ UnchangedByLegacy

\* legacy capture_thread: cap.read() gave a frame (got) or not, the frame is
\* stored, and `if self.recording and device_id in self.writers` is tested
LCheck(d, got) ==
    /\ d \in DOMAIN lthreads
    /\ lthreads[d] = "loop"
    /\ lthreads' = [lthreads EXCEPT ![d] =
                       IF got /\ lrecording /\ d \in DOMAIN lwriters THEN "write" ELSE "loop"]
    /\ UNCHANGED <<lpc, lrecording, lwriters, ltodo, lfaults>>
    /\ UnchangedByLegacy

\* legacy capture_thread: self.writers[device_id].write(frame); the lookup
\* raises KeyError when the key is gone, and nothing catches it
LWrite(d) ==
    /\ d \in DOMAIN lthreads
    /\ lthreads[d] = "write"
    /\ IF d \notin DOMAIN lwriters
       THEN /\ lthreads' = [lthreads EXCEPT ![d] = "dead"]
            /\ lfaults' = lfaults \cup {<<d, "KeyError">>}
       ELSE /\ lthreads' = [lthreads EXCEPT ![d] = "loop"]
            /\ lfaults' = IF lwriters[d] = "released"
                          THEN lfaults \cup {<<d, "released">>}
                          ELSE lfaults
    /\ UNCHANGED <<lpc, lrecording, lwriters, ltodo>>
    /\ UnchangedByLegacy

NextLegacy ==
    \/ \E isOpened \in SUBSET Devices : LStartRecording(isOpened)
    \/ LStopRecording
    \/ LRelease
    \/ \E d \in Devices, got \in BOOLEAN : LCheck(d, got)
    \/ \E d \in Devices : LWrite(d)

SpecLegacy == InitLegacy /\ [][NextLegacy]_vars

(* --------------- extract_frames_from_group run on one group ------------ *)
InitExtractGroup ==
    /\ AppInit
    /\ readLog = NoRead
    /\ NoInitCall
    /\ NoExtractAll
    /\ NoDetectCall
    /\ NoGridCall
    /\ NoBaseCall
    /\ NoVersionCall
    /\ NoLegacyCall
    /\ gpc = "open"
    /\ fps_extract \in ExtractFps
    /\ max_frames \in 0..MaxCap
    /\ caps = {}
    /\ openClips = {}
    /\ frame_counts = <<>>
    /\ original_fps = 0
    /\ min_frames = 0
    /\ frame_interval = 1
    /\ extracted_count = 0
    /\ frame_index = 0
    /\ all_success = TRUE
    /\ xframes = {}
    /\ images = {}
    /\ xret = "none"

UnchangedRest ==
    UNCHANGED <<ctlVars, camVars, recVars, ticks, log, readLog, initVars, xallVars, detVars,
                gridVars, baseVars, verVars, legVars>>

\* from the entry to the loop: the clips are opened in turn (those of
\* cannot do not open), the frame counts and the fps read, min_frames and
\* frame_interval computed
GOpen(cannot, counts, fps) ==
    /\ gpc = "open"
    /\ caps' = Before(camera_devices, cannot)
    /\ frame_counts' = [c \in caps' |-> counts[c]]
    /\ IF cannot # {}
       THEN /\ openClips' = caps'
            /\ xret' = "False"
            /\ gpc' = "done"
            /\ UNCHANGED <<min_frames, original_fps, frame_interval>>
       ELSE /\ min_frames' = MinFrames(frame_counts')
            /\ IF min_frames' = 0
               THEN /\ openClips' = {}
                    /\ xret' = "False"
                    /\ gpc' = "done"
                    /\ UNCHANGED <<original_fps, frame_interval>>
               ELSE /\ openClips' = caps'
                    /\ original_fps' = fps
                    /\ frame_interval' = FrameInterval(original_fps', fps_extract)
                    /\ gpc' = "loop"
                    /\ UNCHANGED xret
    /\ UNCHANGED <<fps_extract, max_frames, extracted_count, frame_index,
                   all_success, xframes, images>>
    /\ UnchangedRest

\* one pass of the while loop: seek and read camera by camera (the reads of
\* fails fail), write the images, count, test the two ends
GPass(fails) ==
    /\ gpc = "loop"
    /\ xframes' = Before(caps, fails)
    /\ all_success' = (fails \cap caps = {})
    /\ images' = images \cup
                   NewImages(Emit(xframes', all_success'), extracted_count, frame_index)
    /\ IF ~all_success' \/ xframes' = {}
       THEN /\ gpc' = "release"
            /\ UNCHANGED <<extracted_count, frame_index>>
       ELSE /\ extracted_count' = extracted_count + 1
            /\ frame_index' = frame_index + frame_interval
            /\ gpc' = IF Stop(max_frames, extracted_count', frame_index', min_frames)
                      THEN "release" ELSE "loop"
    /\ UNCHANGED <<fps_extract, max_frames, caps, openClips, frame_counts, original_fps,
                   min_frames, frame_interval, xret>>
    /\ UnchangedRest

\* after the loop: every handle released, True returned
GRelease ==
    /\ gpc = "release"
    /\ openClips' = {}
    /\ xret' = "True"
    /\ gpc' = "done"
    /\ UNCHANGED <<fps_extract, max_frames, caps, frame_counts, original_fps, min_frames,
                   frame_interval, extracted_count, frame_index, all_success, xframes, images>>
    /\ UnchangedRest

NextExtractGroup ==
    \/ \E cannot \in Failures, counts \in [camera_devices -> 0..MaxFrames],
          fps \in SourceFps : GOpen(cannot, counts, fps)
    \/ \E fails \in Failures : GPass(fails)
    \/ GRelease

SpecExtractGroup == InitExtractGroup /\ [][NextExtractGroup]_vars

\* the call runs on: it is one sequential function, and every seek, read and
\* write it makes returns
FairExtractGroup ==
    /\ SpecExtractGroup
    /\ WF_vars(gpc = "open" /\ NextExtractGroup)
    /\ WF_vars(gpc = "loop" /\ \E fails \in Failures : GPass(fails))
    /\ WF_vars(GRelease)

(* ------------------------------ properties ---------------------------- *)
\* writers present before and after a step
Kept == (DOMAIN writers) \cap (DOMAIN writers')

\* C1: start_recording called while a recording is active, or with no camera,
\* returns False without reaching the product-label request and leaves
\* recording, writers, current_product and record_start_time as they were;
\* whenever a start_recording is past its early returns, no recording is
\* active and no writer is open, so there is one session at a time.
C1_StartRecordingNoOp ==
    /\ [](pc = "dialog" => (~recording /\ cameras # {} /\ DOMAIN writers = {}))
    /\ [][(pc = "loop" /\ (recording \/ cameras = {}) /\ (pc' = "dialog" \/ ret' = "False"))
            => (/\ pc' = "loop"
                /\ ret' = "False"
                /\ UNCHANGED <<recording, writers, current_product, record_start_time>>)]_vars

\* start_recording was refused while a recording was active
C1_Witness == recording /\ ret = "False" /\ pc = "loop" /\ DOMAIN writers # {}

\* C2: when start_recording has a product label, it tries a writer for every
\* camera key; afterwards writers holds exactly the devices whose writer
\* opened, each writer new, and the call sets recording and returns True if
\* and only if at least one opened.
C2_WritersAreTheOpened ==
    [][(pc = "dialog" /\ log' # NoLog)
        => (/\ log'.cams = cameras
            /\ DOMAIN writers' = log'.opened
            /\ \A d \in DOMAIN writers' : writers'[d].frames = 0 /\ writers'[d].rel = 0
            /\ recording' <=> (log'.opened # {})
            /\ (ret' = "True") <=> recording'
            /\ (ret' = "False") <=> ~recording'
            /\ recording' => record_start_time' # NoTime)]_vars

\* a session started although the writer of one camera did not open
C2_Witness ==
    /\ recording
    /\ ret = "True"
    /\ log.opened # {}
    /\ log.opened # log.cams
    /\ DOMAIN writers = log.opened

\* C3: stop_recording does nothing when no recording is active; otherwise the
\* flag is off before the first writer is released and stays off, no frame is
\* written to a released writer, every writer has been released exactly once
\* when the call returns, and writers is empty afterwards.
C3_StopRecording ==
    /\ [](pc = "stop_release" => ~recording)
    /\ [](\A d \in DOMAIN writers : writers[d].rel <= 1)
    /\ [][/\ (pc = "loop" /\ ~recording) => pc' # "stop_release"
          /\ \A d \in Kept : writers'[d].rel # writers[d].rel
                => (pc = "stop_release" /\ ~recording /\ ~recording')
          /\ \A d \in Kept : writers[d].rel > 0 => writers'[d].frames = writers[d].frames
          /\ (pc = "stop_release" /\ pc' # "stop_release")
                => (/\ \A d \in DOMAIN writers : writers[d].rel = 1
                    /\ DOMAIN writers' = {}
                    /\ ~recording')]_vars

\* the release loop of a two-writer session with frames is through
C3_Witness ==
    /\ pc = "stop_release"
    /\ todo = {}
    /\ DOMAIN writers = Devices
    /\ \A d \in DOMAIN writers : writers[d].rel = 1 /\ writers[d].frames > 0

\* C4: one write_frames call appends one frame to every writer whose device
\* has a slot in the frame map and none to the others; nothing is appended
\* while recording is off; a writer's frame count never decreases and never
\* exceeds the number of write_frames calls of its session.
C4_WriteFrames ==
    /\ [](\A d \in DOMAIN writers : writers[d].frames <= ticks)
    /\ [][/\ \A d \in Kept : writers'[d].frames \in {writers[d].frames, writers[d].frames + 1}
          /\ ticks' = ticks + 1
                => (/\ recording
                    /\ DOMAIN writers' = DOMAIN writers
                    /\ \A d \in DOMAIN writers :
                          writers'[d].frames
                            = writers[d].frames + (IF d \in DOMAIN frames THEN 1 ELSE 0))
          /\ ~recording => \A d \in Kept : writers'[d].frames = writers[d].frames]_vars

\* after two calls one writer has two frames, one whose slot went away has fewer
C4_Witness ==
    /\ recording
    /\ ticks = 2
    /\ \E d \in DOMAIN writers : writers[d].frames = 2
    /\ \E d \in DOMAIN writers : writers[d].frames < 2

\* C5: the devices with a writer are among the camera keys start_recording
\* saw, and while writers is not empty no step adds a key to it.
C5_WritersWithinCameras ==
    /\ [](DOMAIN writers # {} => DOMAIN writers \subseteq log.cams)
    /\ [][DOMAIN writers # {} => DOMAIN writers' \subseteq DOMAIN writers]_vars

\* a session goes on after the camera map lost a device it records
C5_Witness ==
    /\ recording
    /\ pc = "loop"
    /\ ticks > 0
    /\ ~(DOMAIN writers \subseteq cameras)

\* a listed capture worker of device d leaves _capture_thread in this step
ListedExit(d) ==
    /\ d \in DOMAIN capture_threads
    /\ d \in DOMAIN capture_threads'
    /\ Alive(capture_threads[d])
    /\ ~Alive(capture_threads'[d])

\* a stray capture worker leaves _capture_thread in this step
StrayExit == Sum(strays', StrayKinds) < Sum(strays, StrayKinds)

C8_CleanupReleasesAll ==
    /\ [](pc \in {"cm_join", "cm_release"} => ~running)
    /\ [](pc = "cm_release" => DOMAIN capture_threads = {})
    /\ [][(pc = "cm_release" /\ pc' # "cm_release")
            => (/\ openCaps' = {}
                /\ cameras' = {}
                /\ frames' = EmptyMap
                /\ DOMAIN capture_threads' = {}
                /\ ~running')]_vars

\* cleanup() has returned to restart_cameras after a join that timed out
C8_Witness ==
    /\ pc = "restart"
    /\ savedCams = Devices
    /\ cameras = {}
    /\ openCaps = {}
    /\ Sum(strays, StrayKinds) > 0

\* C9: at any time a device has at most one open capture handle.
C9_OneHandlePerDevice == \A d \in Devices : OpenHandles(d) <= 1

\* workers inside cap.read() on the camera map's handle of device d
ReadingOn(d) ==
    (IF d \in DOMAIN capture_threads /\ capture_threads[d] = [cap |-> "cur", pc |-> "read"]
     THEN 1 ELSE 0)
    + strays[[dev |-> d, cap |-> "cur", pc |-> "read"]]

\* C10: the control thread releases a handle only when no worker is using
\* it: no handle is released while a worker is inside cap.read() on it.
C10_NoReleaseDuringRead ==
    [][\A d \in Devices :
          (<<d, "cur">> \in openCaps /\ pc = "cm_release" /\ pc' # "cm_release")
              => ReadingOn(d) = 0]_vars

\* the slot of device d is not what it was: added, removed or replaced
SlotChanged(d) ==
    \/ (d \in DOMAIN frames) # (d \in DOMAIN frames')
    \/ (d \in DOMAIN frames /\ d \in DOMAIN frames' /\ frames'[d] # frames[d])

\* a capture worker of device d comes out of cap.read() in this step
ReadEnded(d) ==
    \/ /\ d \in DOMAIN capture_threads
       /\ d \in DOMAIN capture_threads'
       /\ capture_threads[d].pc = "read"
       /\ capture_threads'[d].pc # "read"
    \/ \E k \in StrayKinds : k.dev = d /\ k.pc = "read" /\ strays'[k] < strays[k]

C12_FailedReadKeepsSlots ==
    [][(pc' = pc /\ readLog' # NoRead /\ readLog'[2] # "ok" /\ ReadEnded(readLog'[1]))
        => frames' = frames]_vars

\* the latest read of device 0 gave no frame, and the slots are as the reads
\* before it left them: device 0's holds a frame read from a handle of before
\* the restart, device 2's one from the current handle
C12_Witness ==
    /\ readLog = <<0, "fail">>
    /\ running
    /\ 0 \in DOMAIN capture_threads
    /\ capture_threads[0].pc = "check"
    /\ DOMAIN frames = Devices
    /\ frames[0] = "old"
    /\ frames[2] = "cur"

\* device d opens under a backend, is configured, and a trial read gives a frame
TrialSucceeds(d) ==
    /\ devEnv[d].opens # {}
    /\ ~devEnv[d].setRaises
    /\ \E i \in 1..3 : /\ devEnv[d].reads[i] = "good"
                       /\ \A j \in 1..(i - 1) : devEnv[d].reads[j] = "bad"

\* C13: after initialize_cameras a candidate is in the camera map, with a
\* frame in its slot and its handle open, exactly when it opened under a
\* backend and one of its up to 3 trial reads gave a frame, whatever the
\* other candidates did; the call returns False exactly when none did.
C13_InitializeCameras ==
    initRet # "none"
        => /\ \A d \in Devices :
                /\ d \in cameras <=> (d \in camera_infos /\ TrialSucceeds(d))
                /\ d \in DOMAIN frames <=> d \in cameras
                /\ <<d, "cur">> \in openCaps <=> d \in cameras
           /\ initRet = "False" <=> ~(\E d \in camera_infos : TrialSucceeds(d))

\* of two candidates one is initialized at its third trial read, the other
\* opens and gives no frame in three reads
C13_Witness ==
    /\ initRet = "True"
    /\ camera_infos = Devices
    /\ cameras = {2}
    /\ devEnv[2].reads = [i \in 1..3 |-> IF i = 3 THEN "good" ELSE "bad"]
    /\ devEnv[0].opens # {}
    /\ devEnv[0].reads = [i \in 1..3 |-> "bad"]

\* C14 as stated: a session started with K cameras has exactly K clip files.
C14_ExactlyKClips ==
    recording => Cardinality(DOMAIN writers) = Cardinality(log.cams)

\* C14: a session has one clip file for every camera whose writer opened, at
\* least one, and K of them when all K writers opened; every clip of the
\* session is named with the session's product and the session's timestamp.
C14_ClipPerOpenedWriter ==
    recording
        => /\ DOMAIN writers = log.opened
           /\ log.opened \subseteq log.cams
           /\ Cardinality(DOMAIN writers) >= 1
           /\ log.opened = log.cams => Cardinality(DOMAIN writers) = Cardinality(log.cams)
           /\ \A d \in DOMAIN writers :
                 /\ writers[d].product = current_product
                 /\ writers[d].stamp = record_start_time
                 /\ writers[d].product # NoProduct
                 /\ writers[d].stamp # NoTime

\* a session of two cameras with two clips, frames written
C14_Witness ==
    /\ recording
    /\ ticks > 0
    /\ log.cams = Devices
    /\ DOMAIN writers = Devices
    /\ writers[0].product = writers[2].product
    /\ writers[0].stamp = writers[2].stamp

\* C15: when start_recording comes back from the label request without a
\* label (no session with a product's name results from the step), it returns
\* False, logs no session, opens no writer and leaves recording, writers,
\* current_product and record_start_time as they were.
C15_CancelledStartIsNoOp ==
    [][(pc = "dialog" /\ pc' # "dialog" /\ ~(log' # NoLog /\ current_product' \in Products))
        => (/\ ret' = "False"
            /\ log' = NoLog
            /\ UNCHANGED <<recording, writers, current_product, record_start_time>>)]_vars

\* a label request was cancelled, and the product of the session before it
\* is still the current product
C15_Witness ==
    /\ pc = "loop"
    /\ ret = "False"
    /\ ~recording
    /\ cameras # {}
    /\ log = NoLog
    /\ DOMAIN writers = {}
    /\ current_product \in Products
    /\ record_start_time \in Stamps

\* C16: while start_recording waits for the product label, every capture
\* worker that has not ended can take its next step, write_frames is not
\* called, and no step changes the camera map, the running flag, the handles
\* or the threads the manager lists; the return of the label request changes
\* nothing of the camera manager either.
C16_DialogLeavesCaptureAlone ==
    /\ [](pc = "dialog"
            => \A d \in DOMAIN capture_threads :
                  Alive(capture_threads[d])
                    => ENABLED (WorkerCheck(d) \/ \E out \in ReadOutcomes : WorkerRead(d, out)))
    /\ [][pc = "dialog"
            => /\ ticks' = ticks
               /\ UNCHANGED <<cameras, running, openCaps>>
               /\ DOMAIN capture_threads' = DOMAIN capture_threads
               /\ \A d \in DOMAIN capture_threads :
                     capture_threads'[d].cap = capture_threads[d].cap
               /\ pc' = "dialog" => UNCHANGED <<ctlVars, recVars>>
               /\ pc' # "dialog" => (pc' = "loop" /\ UNCHANGED camVars)]_vars

\* the label request is pending while both workers are in their loops, one
\* of them inside cap.read()
C16_Witness ==
    /\ pc = "dialog"
    /\ running
    /\ cameras = Devices
    /\ capture_threads[0].pc = "read"
    /\ capture_threads[2].pc = "check"
    /\ DOMAIN frames = Devices

\* C17: an initialize_system that ends with no camera starts no capture
\* worker and leaves the manager stopped; at startup run() then ends, after a
\* redetection the loop goes on without cameras, so no device is opened by a
\* step after which detection is still to run; run() never leaves its end,
\* and a detection other than the one of startup is entered only through the
\* cleanup of a D key pressed in the loop.
C17_NoCamerasNoRetry ==
    [][/\ (pc \in {"start", "detect"} /\ pc' # pc /\ cameras' = {})
            => (/\ pc' = (IF pc = "start" THEN "done" ELSE "loop")
                /\ ~running'
                /\ DOMAIN capture_threads' = {}
                /\ strays' = strays)
       /\ (pc \in {"start", "detect"} /\ pc' = pc)
            => (leaked' \subseteq leaked /\ UNCHANGED <<cameras, openCaps, running>>)
       /\ pc = "done" => (pc' = "done" /\ UNCHANGED <<cameras, running, capture_threads>>)
       /\ (pc' = "detect" /\ pc # "detect") => (pc = "cm_release" /\ after = "detect")
       /\ (after' = "detect" /\ after # "detect") => (pc = "loop" /\ pc' = "cm_join")
       /\ pc' = "start" => pc = "start"]_vars

\* the loop runs without cameras after a redetection in which a device
\* opened and none was initialized
C17_Witness ==
    /\ pc = "loop"
    /\ cameras = {}
    /\ ~running
    /\ DOMAIN capture_threads = {}
    /\ savedCams = {}
    /\ ret = "none"
    /\ leaked = Devices

\* C18: find_clip_groups returns a group only if its clips are those of
\* exactly the device ids {0, 2, 4, 6}, and it returns the whole session (all
\* clips of that directory and timestamp); extract_all_clips extracts only
\* returned groups, so every clip it opens and every group it writes images
\* for belongs to a session with exactly the four expected ids: a session
\* missing an expected id is never opened or extracted, not even in part.
C18_OnlyCompleteGroups ==
    /\ \A g \in clip_groups :
           /\ CamsOf(g.clips) = {0, 2, 4, 6}
           /\ \A f \in g.clips : g.clips = ClipsOf(clipFiles, f.dir, f.stamp)
    /\ groups \subseteq clip_groups
    /\ extracted \subseteq clip_groups
    /\ \A f \in opened :
           /\ f \in clipFiles
           /\ CamsOf(ClipsOf(clipFiles, f.dir, f.stamp)) = {0, 2, 4, 6}
    /\ \A sl \in ClipSlots :
           (\E c \in {0, 2, 4, 6} : c \notin CamsOf(ClipsOf(clipFiles, sl[1], sl[2])))
               => /\ ClipsOf(clipFiles, sl[1], sl[2]) \cap opened = {}
                  /\ \A g \in clip_groups \cup extracted :
                         g.clips \cap ClipsOf(clipFiles, sl[1], sl[2]) = {}

\* extract_all_clips has finished on a tree where one product holds a session
\* without camera 6 next to a complete one, which was opened and extracted,
\* and the other product a session with camera 8 in place of camera 0
C18_Witness ==
    /\ xpc = "done"
    /\ CamsOf(ClipsOf(clipFiles, "cola_v1", "t1")) = {0, 2, 4}
    /\ CamsOf(ClipsOf(clipFiles, "cola_v1", "t2")) = {0, 2, 4, 6}
    /\ CamsOf(ClipsOf(clipFiles, "soda_v1", "t1")) = {2, 4, 6, 8}
    /\ ClipsOf(clipFiles, "cola_v1", "t2") \subseteq opened
    /\ \E g \in extracted : g.product = "cola_v1" /\ g.timestamp = "t2"
    /\ "cola_v1" \in markers

\* the loop of extract_frames_from_group entered and no read failed so far
NoReadFailed == gpc \in {"loop", "release"} \/ (gpc = "done" /\ xret = "True")

\* C19: while no seek/read fails, extract_frames_from_group has emitted the
\* bundles of frame indices 0, I, 2I, ... (I = frame_interval), each of one
\* frame per camera and each index strictly below the smallest frame count of
\* the group's clips (which is min_frames); it goes on while fewer than
\* min(M, ceil(min_frames / I)) bundles are out (ceil(min_frames / I) without
\* a cap) and has emitted exactly that many when it stops.
C19_BundlesUpToMinFrames ==
    (NoReadFailed /\ all_success) =>
        LET minf == CHOOSE m \in { frame_counts[c] : c \in {0, 2, 4, 6} } :
                        \A c \in {0, 2, 4, 6} : m <= frame_counts[c]
            I == frame_interval
            whole == (minf + I - 1) \div I
            N == IF max_frames # 0 /\ max_frames < whole THEN max_frames ELSE whole
        IN  /\ min_frames = minf
            /\ images = { [cam |-> c, n |-> k, frame |-> k * I] :
                            c \in {0, 2, 4, 6}, k \in 0..(extracted_count - 1) }
            /\ \A im \in images : im.frame < minf
            /\ gpc = "loop" => extracted_count < N
            /\ gpc # "loop" => extracted_count = N

\* clips of 3, 2, 3 and 3 frames, every frame extracted, no cap: the call has
\* returned after exactly 2 bundles
C19_Witness ==
    /\ gpc = "done"
    /\ xret = "True"
    /\ all_success
    /\ frame_counts = [c \in {0, 2, 4, 6} |-> IF c = 2 THEN 2 ELSE 3]
    /\ frame_interval = 1
    /\ max_frames = 0
    /\ extracted_count = 2
    /\ Cardinality(images) = 8

\* C20: a pass in which some camera's seek+read fails writes no image, for
\* any camera, and ends the extraction of the group (nothing is written or
\* counted after it); so at every moment each of the group's cameras has
\* exactly the images of running indices 0..extracted_count-1, one image per
\* index, all cameras' images of one index from the same frame index.
C20_NoPartialBundle ==
    /\ [](/\ \A c \in {0, 2, 4, 6} :
                 { im.n : im \in { x \in images : x.cam = c } } = 0..(extracted_count - 1)
          /\ \A im \in images : im.cam \in {0, 2, 4, 6}
          /\ \A im1, im2 \in images : im1.n = im2.n => im1.frame = im2.frame)
    /\ [][ /\ (gpc = "loop" /\ ~all_success')
                => /\ images' = images
                   /\ extracted_count' = extracted_count
                   /\ gpc' = "release"
           /\ gpc \in {"release", "done"}
                => /\ images' = images
                   /\ extracted_count' = extracted_count
                   /\ gpc' = "done" ]_vars

\* the call has returned after two whole bundles and a third pass in which
\* cameras 0 and 2 were read and the read of camera 4 failed
C20_Witness ==
    /\ gpc = "done"
    /\ ~all_success
    /\ xframes = {0, 2}
    /\ extracted_count = 2
    /\ { im.n : im \in images } = {0, 1}
    /\ Cardinality(images) = 8

\* round(a / b) for a >= 0 and b > 0, halves to the even neighbour
Round(a, b) ==
    IF 2 * (a % b) < b THEN a \div b
    ELSE IF 2 * (a % b) > b THEN (a \div b) + 1
    ELSE IF (a \div b) % 2 = 0 THEN a \div b
    ELSE (a \div b) + 1

\* C21: once computed, frame_interval is max(1, round(original_fps /
\* fps_extract)) of the reference clip's fps, and 1 when that fps is 0.
C21_IntervalIsRounded ==
    gpc \in {"loop", "release"} =>
        frame_interval =
            IF original_fps = 0 THEN 1
            ELSE IF Round(original_fps, fps_extract) > 1
                 THEN Round(original_fps, fps_extract) ELSE 1

\* C22: when extract_frames_from_group has returned, with True or with
\* False, no clip handle it opened is still open.
C22_AllReleasedOnReturn ==
    gpc = "done" => openClips = {}

\* C23: a product is marked in a run of extract_all_clips (its marker
\* written, the product put into processed_products) only at the end of its
\* own groups and only if every one of its groups returned True in this run;
\* so when the run is over, a product with a group that did not return True
\* was not marked by it, and has no marker unless it had one before.
C23_MarkedOnlyIfAllSucceeded ==
    /\ [](\A p \in processed_products :
              /\ p \in markers
              /\ \A g \in clip_groups : g.product = p => g \in succeeded)
    /\ [](xpc = "done" =>
              \A g \in clip_groups :
                  g \notin succeeded => g.product \notin processed_products)
    /\ [][ (markers' # markers \/ processed_products' # processed_products) =>
              /\ xpc = "group" /\ groups = {}
              /\ markers' = markers \cup {product}
              /\ processed_products' = processed_products \cup {product}
              /\ \A g \in clip_groups : g.product = product => g \in succeeded ]_vars

\* the run is over: cola_v1 had two groups, one returned True and one
\* False, and is left without a marker; soda_v1's groups all returned True
\* and it is marked
C23_Witness ==
    /\ xpc = "done"
    /\ Cardinality({ g \in clip_groups : g.product = "cola_v1" }) = 2
    /\ Cardinality({ g \in succeeded : g.product = "cola_v1" }) = 1
    /\ "cola_v1" \notin markers
    /\ \E g \in clip_groups : g.product = "soda_v1"
    /\ processed_products = {"soda_v1"}
    /\ "soda_v1" \in markers

\* C24: in a run without the force flag no product that is to be processed
\* has a marker, and every step that opens a clip, writes images for a group
\* or writes a marker does so for a product whose directory holds no marker
\* at that moment: a product marked before the run has none of its clips
\* opened, no frame written and its marker not rewritten.  In a run with the
\* force flag every discovered group has been put to extraction when the run
\* is over, marked or not.
C24_MarkedProductsSkipped ==
    /\ []((~force_reprocess /\ xpc # "find") =>
              \A p \in products_to_process : p \notin markers)
    /\ [][ ~force_reprocess =>
              /\ \A f \in opened' \ opened : f.dir \notin markers
              /\ \A g \in extracted' \ extracted :
                     g.product \notin markers /\ \A f \in g.clips : f.dir \notin markers
              /\ \A p \in processed_products' \ processed_products : p \notin markers
              /\ (xpc = "group" /\ xpc' = "product") => product \notin markers ]_vars
    /\ []((force_reprocess /\ xpc = "done") =>
              \A g \in clip_groups : g.clips \cap opened # {})

\* a run without the force flag is over: cola_v1 was marked before it and
\* holds a complete session, none of whose clips was opened; soda_v1 was
\* extracted and marked by the run
C24_Witness ==
    /\ xpc = "done"
    /\ ~force_reprocess
    /\ "cola_v1" \in markers \ processed_products
    /\ \E g \in clip_groups : g.product = "cola_v1"
    /\ \A f \in opened : f.dir = "soda_v1"
    /\ \E g \in extracted : g.product = "soda_v1"
    /\ processed_products = {"soda_v1"}

\* C25: every clip of a group find_clip_groups returned carries in its own
\* file name the product and the timestamp of the group.
C25_GroupedByNameAndTime ==
    xpc = "found" =>
        \A g \in clip_groups :
            \A f \in g.clips : f.product = g.product /\ f.stamp = g.timestamp

\* the devices a method's probes reported usable, by the log
FoundBy(m) ==
    { probeLog[i][2] : i \in { j \in 1..Len(probeLog) :
                                 probeLog[j][1] = m /\ probeLog[j][3] = "ok" } }
ProbesOf(m) == { i \in 1..Len(probeLog) : probeLog[i][1] = m }

\* C26: detect_available_cameras runs the v4l2 listing first (no probe is
\* made before it), then the sequential probes of ids 0, 1, ... in order,
\* then the probes of the /dev/video* ids; sequential probes are made only
\* if the listing gave nothing, /dev/video* probes only if the listing gave
\* nothing and all sequential probes were made and none succeeded; and it
\* returns the result of the first method that found a candidate.
C26_FirstMethodWins ==
    /\ dpc = "v4l2" => probeLog = <<>>
    /\ ProbesOf("seq") # {} => v4l2_cameras = {}
    /\ \A i \in ProbesOf("seq") : probeLog[i][2] = i - 1
    /\ (ProbesOf("glob") # {} \/ paths # {}) =>
           /\ v4l2_cameras = {}
           /\ FoundBy("seq") = {}
           /\ \A d \in 0..(max_cameras - 1) : \E i \in ProbesOf("seq") : probeLog[i][2] = d
    /\ \A i, j \in 1..Len(probeLog) :
           (i < j /\ probeLog[i][1] = "glob") => probeLog[j][1] = "glob"
    /\ dpc = "done" =>
           available_cameras =
               IF v4l2_cameras # {} THEN v4l2_cameras
               ELSE IF FoundBy("seq") # {} THEN FoundBy("seq")
               ELSE FoundBy("glob")

\* the listing gave nothing, the sequential probe of id 1 succeeded, the
\* call is over and no /dev/video* probe was made
C26_Witness ==
    /\ dpc = "done"
    /\ v4l2_cameras = {}
    /\ probeLog = << <<"seq", 0, "closed">>, <<"seq", 1, "ok">> >>
    /\ available_cameras = {1}

\* C27: detect_available_cameras never ends by raising an exception.
C27_DetectionNeverRaises ==
    dpc # "raised"

\* C28: when get_camera_info has returned, with the info or with None, the
\* handle it opened is not open any more.
C28_InfoHandleReleased ==
    infoRet # "none" => infoOpen = {}

\* the cameras in the cells of the returned grid, cell by cell
GridCams == { i \in 1..Len(grid.cells) : grid.cells[i][1] = "cam" }

\* C29: called with N = 1, 2, 3 or 4 active devices, create_display_grid
\* returns a grid (no index beyond display_frames is used) whose camera cells
\* are exactly N, hold every active device, and no device twice.
C29_GridShowsEachCameraOnce ==
    (gridpc = "done" /\ Cardinality(dcameras) \in 1..4) =>
        /\ grid.kind = "grid"
        /\ Cardinality(GridCams) = Cardinality(dcameras)
        /\ { grid.cells[i][2] : i \in GridCams } = dcameras
        /\ \A i, j \in GridCams : grid.cells[i][2] = grid.cells[j][2] => i = j
        /\ Len(display_frames) = Cardinality(dcameras)

\* three active devices and a fourth slot left in the frame map by an
\* earlier worker: two cameras on top, the third and the filler below
C29_Witness ==
    /\ gridpc = "done"
    /\ dcameras = {0, 2, 6}
    /\ dframes = {0, 2, 4, 6}
    /\ grid = [kind |-> "grid",
               cells |-> << <<"cam", 0>>, <<"cam", 2>>, <<"cam", 6>>, <<"black", 0>> >>]

\* C30: _extract_base_product_name applied to its own result changes
\* nothing: extract_base(extract_base(x)) = extract_base(x) for every name x.
C30_ExtractBaseIdempotent ==
    [][bpc = 1 => base_product' = base_product]_vars

\* C31: get_next_version(base) returns base_v1 when no directory named
\* base_v<digits> exists and base_v(max existing version + 1) otherwise, and
\* the name it returns is never that of an existing version directory of
\* the product.
C31_NextVersionIsFresh ==
    vpc = "ret" =>
        LET versions == { VersionOf(base_product_name, d) : d \in clip_dirs } \ {-1}
        IN  /\ versions = {} => next_name = base_product_name \o <<"_", "v", "1">>
            /\ versions # {} =>
                 /\ VersionOf(base_product_name, next_name) - 1 \in versions
                 /\ \A v \in versions : v < VersionOf(base_product_name, next_name)
            /\ next_name \notin clip_dirs

\* C32: after cleanup() has returned, no capture worker started before it
\* writes the frame map: the frame map stays empty as long as the camera map
\* is, until initialize_cameras fills both.
C32_FramesEmptyAfterCleanup == cameras = {} => frames = EmptyMap

\* C33: after a restart or a redetection, a worker of the previous
\* generation that the join timeout abandoned does not go on looping: while
\* the running flag is set, no worker the manager does not list is at the
\* loop head of _capture_thread.
C33_AbandonedWorkerNeverResumes ==
    running => \A k \in StrayKinds : k.pc = "check" => strays[k] = 0

\* C34: whenever the control loop is between two passes, recording is set
\* if and only if there is a writer, and while recording is set the product
\* label and the start time are set.
C34_RecordingIffWriters ==
    pc = "loop" =>
        /\ recording <=> (DOMAIN writers # {})
        /\ recording => (current_product # NoProduct /\ record_start_time # NoTime)

\* a session with a writer has gone through a pass of the loop
C34_Witness ==
    /\ pc = "loop"
    /\ recording
    /\ ticks > 0
    /\ DOMAIN writers # {}
    /\ current_product # NoProduct
    /\ record_start_time # NoTime

\* C35: while a recording is active, every device with a writer is a key of
\* the camera map as it is now, also when restart_cameras or
\* force_camera_detection ran during the recording (taken between two
\* passes of the control loop, when no cleanup is under way).
C35_WritersWithinCurrentCameras ==
    (pc = "loop" /\ recording) => DOMAIN writers \subseteq cameras

\* C36: on every way out of run() after a successful initialization (Q or
\* ESC, the window closed, KeyboardInterrupt, an exception in the loop)
\* cleanup runs: the recording is stopped and its writers are released and
\* gone before the capture workers are stopped and the handles released, and
\* at the end recording is false and there are no writers, no cameras and no
\* frames.
C36_ExitCleansUp ==
    /\ []((pc \in {"cm_join", "cm_release"} /\ after = "done")
            => (~recording /\ writers = EmptyMap))
    /\ [](pc = "done"
            => (/\ ~recording
                /\ writers = EmptyMap
                /\ cameras = {}
                /\ frames = EmptyMap))

\* C37: extract_frames_from_group returns True only when it wrote at least
\* one complete bundle; a group whose first seek and read fails is not
\* reported as extracted.
C37_SuccessMeansABundle ==
    (gpc = "done" /\ xret = "True") => extracted_count >= 1

\* C38: extract_frames_from_group terminates for every group and every
\* positive fps_extract: frame_interval is at least 1, so frame_index grows
\* on every pass the loop goes on after, and the call comes to its return.
C38_ExtractionTerminates ==
    /\ [](gpc \in {"loop", "release"} => frame_interval >= 1)
    /\ [][(gpc = "loop" /\ gpc' = "loop") => frame_index' > frame_index]_vars
    /\ <>(gpc = "done")

\* a call that went through the loop twice, two frames apart, has returned
C38_Witness ==
    /\ gpc = "done"
    /\ xret = "True"
    /\ frame_interval = 2
    /\ extracted_count = 2
    /\ frame_index = 4

\* C39: a device that _initialize_single_camera reports as failed (not
\* openable, no good read, timeout, an error while configuring or reading)
\* has no open handle left from the attempt when initialize_cameras returns.
C39_FailedDeviceHasNoHandle ==
    initRet # "none" =>
        \A d \in camera_infos \ cameras : OpenHandles(d) = 0

\* C40: in the legacy recorder no capture thread writes to a writer that
\* stop_recording has released, and none looks up a writer that
\* stop_recording has removed.
C40_NoWriteAfterRelease == lfaults = {}

====
